---- MODULE Spec2Model ----
(***************************************************************************)
(* A model of the receipt printer encoder: the image encoder's pure        *)
(* functions (RLE, strip partitioning, chunking), the text wrapper, the    *)
(* style tracker, the line composer and the encoder facade.                *)
(***************************************************************************)
EXTENDS Integers, Sequences, FiniteSets, TLC

VARIABLES
    rle,        \* one run of compressRLE / decompressRLE: [pc, data, result, restored]
    strip,      \* one run of pixelsToRasterStrips: [pc, image, width, height, stripHeight, out]
    encoder,    \* the ReceiptPrinterEncoder between two calls
    call,       \* the call made last: its method, arguments, exception and the composer before it
    calls,      \* the number of calls made
    pending,    \* the image() call suspended at its await
    script,     \* the calls made since the last encode
    encoded,    \* what the last commands(), encode() or iterator gave the caller
    stream,     \* the async iterator and its consumer: [pc, chunkSize, callback, fullData,
                \* chunks, yielded, sent, settled, threw]
    pool,       \* a MemoryPool and its client: [pools, held, last]
    imaging,    \* one image given to a dialect driver: [job, sync, async]
    wrapper,    \* one run of TextWrap.wrap: [pc, value, columns, width, indent, lines]
    heap        \* the static pool and the image operations sharing it:
                \* [pools, made, started, kept, tasks]

vars ==
    <<rle, strip, encoder, call, calls, pending, script, encoded, stream, pool, imaging,
      wrapper, heap>>

(***************************************************************************)
(* Generic helpers                                                         *)
(***************************************************************************)
Min(a, b) == IF a < b THEN a ELSE b
Max(a, b) == IF a > b THEN a ELSE b

\* Math.ceil(a / b) for a >= 0, b >= 1
CeilDiv(a, b) == (a + b - 1) \div b

\* data[i] with the 0-based index of the source
At(data, i) == data[i + 1]

\* s.slice(from, to) / s.subarray(from, to) with 0-based, end-exclusive, clamped indices
Slice(s, from, to) == SubSeq(s, Min(from, Len(s)) + 1, Min(to, Len(s)))

Repeat(v, n) == [k \in 1..n |-> v]

RECURSIVE Flatten(_)
Flatten(ss) == IF ss = <<>> THEN <<>> ELSE Head(ss) \o Flatten(Tail(ss))

RECURSIVE SumSeq(_)
SumSeq(s) == IF s = <<>> THEN 0 ELSE Head(s) + SumSeq(Tail(s))

(***************************************************************************)
(* ImageEncoder.compressRLE / decompressRLE                                *)
(***************************************************************************)
MAX_RLE_RUN == 255
MaxEncodableRun == 129
MaxLiteralBlock == 128
RunControlBase == 128

\* The inner counting loop: consecutive bytes equal to data[i], up to MAX_RLE_RUN
CountRun(data, i) ==
    LET stop == {k \in 1..MAX_RLE_RUN :
                    ~(i + k < Len(data) /\ At(data, i + k) = At(data, i))}
    IN  IF stop = {} THEN MAX_RLE_RUN
        ELSE CHOOSE k \in stop : \A j \in stop : k <= j

\* A run longer than the encodable maximum is wrongly left uncapped
RunLengthAtUncapped(data, i) == CountRun(data, i)

\* runLength as used for a run: counted, then capped at 129
RunLengthAt(data, i) ==
    LET counted == CountRun(data, i)
    IN  IF counted > MaxEncodableRun THEN MaxEncodableRun ELSE counted

\* The literal loop: bytes taken from i until a run of two starts, the block is
\* full or the data ends
LiteralCountAt(data, i) ==
    LET stop == {k \in 0..MaxLiteralBlock :
                    \/ ~(i + k < Len(data) /\ k < MaxLiteralBlock)
                    \/ (i + k + 1 < Len(data) /\ At(data, i + k) = At(data, i + k + 1))}
    IN  CHOOSE k \in stop : \A j \in stop : k <= j

\* The bytes written to the scratch buffer from position i on (a Uint8Array:
\* every write is taken modulo 256)
RECURSIVE CompressFrom(_, _)
CompressFrom(data, i) ==
    IF ~(i < Len(data)) THEN <<>>
    ELSE IF CountRun(data, i) >= 2
         THEN LET runLength == RunLengthAt(data, i)
              IN  <<(RunControlBase + (runLength - 2)) % 256, At(data, i)>>
                    \o CompressFrom(data, i + runLength)
         ELSE LET literalCount == LiteralCountAt(data, i)
              IN  IF literalCount > 0
                  THEN <<(literalCount - 1) % 256>> \o Slice(data, i, i + literalCount)
                         \o CompressFrom(data, i + literalCount)
                  ELSE <<>>

compressRLE(data) ==
    IF Len(data) = 0
    THEN [data |-> <<>>, compressed |-> FALSE, originalSize |-> 0, compressedSize |-> 0]
    ELSE LET output == CompressFrom(data, 0)
             compressedSize == Len(output)
         IN  IF ~(compressedSize < Len(data))
             THEN [data |-> data, compressed |-> FALSE,
                   originalSize |-> Len(data), compressedSize |-> Len(data)]
             ELSE [data |-> output, compressed |-> TRUE,
                   originalSize |-> Len(data), compressedSize |-> compressedSize]

\* A read past the end of a typed array is undefined; filling with it stores 0
RECURSIVE DecompressFrom(_, _)
DecompressFrom(data, i) ==
    IF ~(i < Len(data)) THEN <<>>
    ELSE LET control == At(data, i)
         IN  IF control >= RunControlBase
             THEN LET runLength == control - RunControlBase + 2
                      value == IF i + 1 < Len(data) THEN At(data, i + 1) ELSE 0
                  IN  Repeat(value, runLength) \o DecompressFrom(data, i + 2)
             ELSE LET literalCount == control + 1
                  IN  Slice(data, i + 1, i + 1 + literalCount)
                        \o DecompressFrom(data, i + 1 + literalCount)

decompressRLE(data) == IF Len(data) = 0 THEN <<>> ELSE DecompressFrom(data, 0)

(***************************************************************************)
(* Inputs of the RLE runs: byte arrays built from a few segments, each a    *)
(* run of one byte or an alternation of two bytes, with lengths around the *)
(* limits of the format                                                    *)
(***************************************************************************)
MaxSegments == 2
SegmentBytes == {1, 170}
SegmentLens == {1, 2, 3, 128, 129, 130}
SegmentKinds == {"run", "alt"}

Alternate(a, b, n) == [k \in 1..n |-> IF k % 2 = 1 THEN a ELSE b]

SegmentData(seg) ==
    IF seg.kind = "run" THEN Repeat(seg.byte, seg.len)
    ELSE Alternate(seg.byte, (seg.byte + 1) % 256, seg.len)

Segments == [kind : SegmentKinds, byte : SegmentBytes, len : SegmentLens]

RECURSIVE SegmentsData(_)
SegmentsData(segs) ==
    IF segs = <<>> THEN <<>> ELSE SegmentData(Head(segs)) \o SegmentsData(Tail(segs))

\* 130 bytes of 0xAA, then the bytes 01 02 03 04 05
RleExampleInput == Repeat(170, 130) \o <<1, 2, 3, 4, 5>>

RleInputs ==
    {SegmentsData(segs) : segs \in UNION {[1..n -> Segments] : n \in 0..MaxSegments}}
        \cup {RleExampleInput}

RleIdle == [pc |-> "idle", data |-> <<>>, result |-> compressRLE(<<>>), restored |-> <<>>]

RleInit == rle \in {[RleIdle EXCEPT !.pc = "input", !.data = d] : d \in RleInputs}

RleCompress ==
    /\ rle.pc = "input"
    /\ rle' = [rle EXCEPT !.pc = "compressed", !.result = compressRLE(rle.data)]

\* The caller decompresses what was reported as compressed
RleDecompress ==
    /\ rle.pc = "compressed"
    /\ rle.result.compressed
    /\ rle' = [rle EXCEPT !.pc = "done", !.restored = decompressRLE(rle.result.data)]

\* and uses the data as it is otherwise
RleKeep ==
    /\ rle.pc = "compressed"
    /\ ~rle.result.compressed
    /\ rle' = [rle EXCEPT !.pc = "done", !.restored = rle.result.data]

(***************************************************************************)
(* ImageEncoder.getPixel / pixelsToRasterStrips                            *)
(***************************************************************************)
\* image.data[index] > 127 ? 0 : 1, 0 outside the target rectangle
getPixel(image, x, y, width, height) ==
    IF x < 0 \/ x >= width \/ y < 0 \/ y >= height THEN 0
    ELSE LET index == ((width * y) + x) * 4
         IN  IF index < Len(image.data) /\ At(image.data, index) > 127 THEN 0 ELSE 1

\* Two to the power n
RECURSIVE Pow2(_)
Pow2(n) == IF n <= 0 THEN 1 ELSE 2 * Pow2(n - 1)

\* byte |= getPixel(x + b, y) << (7 - b) for b = 0..7
RasterByte(image, x, y, width, height) ==
    SumSeq([b \in 1..8 |-> getPixel(image, x + (b - 1), y, width, height) * Pow2(7 - (b - 1))])

\* validateImage: the checks on the image object
ValidImage(image) ==
    /\ image.width > 0
    /\ image.height > 0
    /\ ~(Len(image.data) < image.width * image.height * 4)

\* validateDimensions: the checks on the target size
ValidDimensions(width, height) ==
    /\ width > 0
    /\ height > 0
    /\ width % 8 = 0

\* The strip loop resumes one row too far into the image
StripStartYOffByOne(s, stripHeight) == s * stripHeight + 1

\* The strip loop resumes on the last row of the strip before
StripStartYOverlapping(s, stripHeight) ==
    IF s = 0 THEN 0 ELSE s * stripHeight - 1

\* const startY = s * stripHeight
StripStartY(s, stripHeight) == s * stripHeight

\* One strip of the loop over s
RasterStrip(image, width, height, stripHeight, s) ==
    LET widthBytes == width \div 8
        startY == StripStartY(s, stripHeight)
        currentStripHeight == Min(stripHeight, height - startY)
        stripBytes == widthBytes * currentStripHeight
    IN  [data |-> [k \in 1..stripBytes |->
                     RasterByte(image, ((k - 1) % widthBytes) * 8,
                                startY + ((k - 1) \div widthBytes), width, height)],
         widthBytes |-> widthBytes,
         height |-> currentStripHeight]

pixelsToRasterStrips(image, width, height, stripHeight) ==
    IF ~(ValidImage(image) /\ ValidDimensions(width, height))
    THEN [threw |-> TRUE, strips |-> <<>>, widthBytes |-> 0, totalHeight |-> 0]
    ELSE LET totalStrips == CeilDiv(height, stripHeight)
         IN  [threw |-> FALSE,
              strips |-> [s \in 1..totalStrips |->
                            RasterStrip(image, width, height, stripHeight, s - 1)],
              widthBytes |-> width \div 8,
              totalHeight |-> height]

\* The whole image as one bitmap: result[y * widthBytes + (x >> 3)] = byte
pixelsToRaster(image, width, height) ==
    IF ~(ValidImage(image) /\ ValidDimensions(width, height))
    THEN [threw |-> TRUE, data |-> <<>>, widthBytes |-> 0, height |-> 0]
    ELSE [threw |-> FALSE,
          data |-> [k \in 1..((width \div 8) * height) |->
                      RasterByte(image, ((k - 1) % (width \div 8)) * 8,
                                 (k - 1) \div (width \div 8), width, height)],
          widthBytes |-> width \div 8,
          height |-> height]

(***************************************************************************)
(* Inputs of the strip runs: images one or two bytes wide whose rows are   *)
(* drawn from a few patterns                                               *)
(***************************************************************************)
MaxImageHeight == 4
MaxStripHeight == 3
ImageWidths == {8, 16}
White == 255
Black == 0
\* A row is white, black, or black in its even pixels only
RowPatterns == {"white", "black", "even"}

RowPixels(pattern, width) ==
    Flatten([x \in 1..width |->
        LET red == IF pattern = "white" THEN White
                   ELSE IF pattern = "black" THEN Black
                   ELSE IF (x - 1) % 2 = 0 THEN Black ELSE White
        IN  <<red, red, red, 255>>])

MakeImage(rows, width) ==
    [data |-> Flatten([y \in 1..Len(rows) |-> RowPixels(rows[y], width)]),
     width |-> width, height |-> Len(rows)]

StripImages ==
    {MakeImage(rows, w) : rows \in UNION {[1..h -> RowPatterns] : h \in 1..MaxImageHeight},
                          w \in ImageWidths}

StripIdle == [pc |-> "idle", image |-> MakeImage(<<"white">>, 8), stripHeight |-> 1,
              out |-> pixelsToRasterStrips(MakeImage(<<"white">>, 8), 8, 1, 1),
              whole |-> pixelsToRaster(MakeImage(<<"white">>, 8), 8, 1)]

StripInit ==
    strip \in {[StripIdle EXCEPT !.pc = "input", !.image = img, !.stripHeight = sh] :
                 img \in StripImages, sh \in 1..MaxStripHeight}

StripEncode ==
    /\ strip.pc = "input"
    /\ strip' = [strip EXCEPT !.pc = "done",
                    !.out = pixelsToRasterStrips(strip.image, strip.image.width,
                                                 strip.image.height, strip.stripHeight)]

\* The same image through pixelsToRaster, after the strips were made
StripRaster ==
    /\ strip.pc = "done"
    /\ strip' = [strip EXCEPT !.pc = "whole",
                    !.whole = pixelsToRaster(strip.image, strip.image.width,
                                             strip.image.height)]

(***************************************************************************)
(* MemoryPool.  A buffer is its length; a bucket of #pools is the sequence *)
(* of the buffers pushed to it, and a bucket the map does not have is      *)
(* empty.                                                                  *)
(***************************************************************************)
maxPoolSize == 10
\* 4 * 1024 * 1024, 4 MiB
maxBufferSize == 4194304

\* #nextPowerOf2: the least power of two that is at least n, 1 for n <= 0
RECURSIVE PowerOf2From(_, _)
PowerOf2From(p, n) == IF p >= n THEN p ELSE PowerOf2From(2 * p, n)

nextPowerOf2(n) == IF n <= 0 THEN 1 ELSE PowerOf2From(1, n)

\* acquire(size): the buffer returned and the buckets after the call
acquire(pools, size) ==
    IF size > maxBufferSize THEN [buffer |-> size, pools |-> pools]
    ELSE IF Len(pools[nextPowerOf2(size)]) > 0
         THEN [buffer |-> pools[nextPowerOf2(size)][Len(pools[nextPowerOf2(size)])],
               pools |-> [pools EXCEPT ![nextPowerOf2(size)] =
                            SubSeq(@, 1, Len(@) - 1)]]
    ELSE [buffer |-> nextPowerOf2(size), pools |-> pools]

\* The test on the length of the bucket is left out
ReleaseUnbounded(pools, buffer) ==
    IF buffer > maxBufferSize THEN pools
    ELSE [pools EXCEPT ![buffer] = Append(@, buffer)]

\* release(buffer): the buckets after the call
release(pools, buffer) ==
    IF buffer > maxBufferSize THEN pools
    ELSE IF Len(pools[buffer]) < maxPoolSize
         THEN [pools EXCEPT ![buffer] = Append(@, buffer)]
    ELSE pools

\* The sizes a client asks for, the lengths of the buffers it then holds,
\* and the number of buffers it holds at most
AcquireSizes == {3, maxBufferSize, maxBufferSize + 1}
BufferLengths == {nextPowerOf2(3), maxBufferSize, maxBufferSize + 1}
MaxHeld == 11

\* clear(): no bucket is left
NoPools == [b \in BufferLengths |-> <<>>]

\* The number of buffers the client holds
Holding(held) ==
    held[nextPowerOf2(3)] + held[maxBufferSize] + held[maxBufferSize + 1]

NoPoolCall == [op |-> "none", size |-> 0, buffer |-> 0, dropped |-> FALSE]

PoolIdle == [pools |-> NoPools, held |-> [b \in BufferLengths |-> 0], last |-> NoPoolCall]

PoolInit == pool = PoolIdle

\* The client acquires a buffer and keeps it
PoolAcquired(size, got) ==
    pool' = [pools |-> got.pools,
             held |-> [pool.held EXCEPT ![got.buffer] = @ + 1],
             last |-> [NoPoolCall EXCEPT !.op = "acquire", !.size = size,
                                         !.buffer = got.buffer]]

PoolAcquire ==
    /\ Holding(pool.held) < MaxHeld
    /\ \E size \in AcquireSizes : PoolAcquired(size, acquire(pool.pools, size))

\* The client hands back a buffer it holds
PoolRelease ==
    \E buffer \in BufferLengths :
        /\ pool.held[buffer] > 0
        /\ pool' = [pools |-> release(pool.pools, buffer),
                    held |-> [pool.held EXCEPT ![buffer] = @ - 1],
                    last |-> [NoPoolCall EXCEPT
                                !.op = "release", !.buffer = buffer,
                                !.dropped = release(pool.pools, buffer) = pool.pools]]

PoolClear ==
    pool' = [pool EXCEPT !.pools = NoPools,
                         !.last = [NoPoolCall EXCEPT !.op = "clear"]]

(***************************************************************************)
(* TextWrap.wrap.  A string is a sequence of one-character strings.        *)
(***************************************************************************)
WordChars == {"a", "b"}
WhitespaceChars == {" "}
Hyphen == "-"
Newline == "\n"

\* A character is of the class looked for: inside the set, or outside it
InClass(ch, class, inside) == (ch \in class) = inside

\* Length of the longest prefix of s from 0-based position p whose characters
\* all satisfy the class test (in: a set of characters to stay in, or out of)
RunOf(s, p, class, inside) ==
    CHOOSE k \in 0..(Len(s) - p) :
        /\ k = Len(s) - p \/ ~InClass(At(s, p + k), class, inside)
        /\ \A j \in 0..(k - 1) : InClass(At(s, p + j), class, inside)

\* [^\s-]+?-\b matches when the word is followed by a hyphen and a word
\* character
Hyphenated(s, p, word) ==
    /\ word >= 1
    /\ p + word < Len(s)
    /\ At(s, p + word) = Hyphen
    /\ p + word + 1 < Len(s)
    /\ At(s, p + word + 1) \in WordChars

ChunkLen(s, p, word, nonspace) ==
    IF Hyphenated(s, p, word) THEN word + 1
    ELSE IF nonspace >= 1 THEN nonspace
    ELSE RunOf(s, p, WhitespaceChars, TRUE)

\* The match of /[^\s-]+?-\b|\S+|\s+/ at position p: the length of the chunk
ChunkLenAt(s, p) ==
    ChunkLen(s, p, RunOf(s, p, WhitespaceChars \cup {Hyphen}, FALSE),
             RunOf(s, p, WhitespaceChars, FALSE))

\* value.match(...g): the chunks of one line, in order
RECURSIVE ChunksFrom(_, _)
ChunksFrom(s, p) ==
    IF p >= Len(s) THEN <<>>
    ELSE LET n == ChunkLenAt(s, p)
         IN  <<Slice(s, p, p + n)>> \o ChunksFrom(s, p + n)

\* String(value).split(/\r\n|\n/g)
FirstNewline(s) ==
    CHOOSE k \in 1..Len(s) : s[k] = Newline /\ \A j \in 1..(k - 1) : s[j] # Newline

RECURSIVE SplitLines(_)
SplitLines(s) ==
    IF \A k \in 1..Len(s) : s[k] # Newline THEN <<s>>
    ELSE <<SubSeq(s, 1, FirstNewline(s) - 1)>>
           \o SplitLines(SubSeq(s, FirstNewline(s) + 1, Len(s)))

\* letters.splice(0, n) repeated: the pieces of at most n letters
RECURSIVE Pieces(_, _)
Pieces(letters, n) ==
    IF n <= 0 \/ letters = <<>> THEN <<>>
    ELSE <<Slice(letters, 0, n)>> \o Pieces(Slice(letters, n, Len(letters)), n)

\* The line being filled is lost
WrapPushLost(w) == [w EXCEPT !.line = <<>>, !.length = 0]

\* The state of the wrapping loops: the lines finished, the line being
\* filled and the cells used on it
WrapPush(w) == [w EXCEPT !.result = Append(@, w.line), !.line = <<>>, !.length = 0]

WrapAppend(w, piece, width) ==
    [w EXCEPT !.line = @ \o piece, !.length = @ + Len(piece) * width]

RECURSIVE WrapPieces(_, _, _, _)
WrapPieces(w, pieces, columns, width) ==
    IF pieces = <<>> THEN w
    ELSE WrapPieces(WrapAppend(IF w.length + (Len(Head(pieces)) * width) > columns
                               THEN WrapPush(w) ELSE w,
                               Head(pieces), width),
                    Tail(pieces), columns, width)

\* if (remaining > 8 * width)
BreakEarly(remaining, width) == remaining > 8 * width

\* A chunk longer than a line: the letters that go on the current line when
\* it breaks early, then the pieces of the rest
WrapLong(w, chunk, columns, width, taken) ==
    WrapPieces(IF taken > 0
               THEN WrapPush([w EXCEPT !.line = @ \o Slice(chunk, 0, taken)])
               ELSE w,
               Pieces(Slice(chunk, taken, Len(chunk)), columns \div width),
               columns, width)

\* The chunk is appended whatever the cells used
WrapChunkUnbroken(w, chunk, columns, width) == WrapAppend(w, chunk, width)

\* The body of the loop over the chunks of a line
WrapChunk(w, chunk, columns, width) ==
    IF w.length + (Len(chunk) * width) > columns
    THEN IF Len(chunk) * width > columns
         THEN WrapLong(w, chunk, columns, width,
                       IF BreakEarly(columns - w.length, width)
                       THEN (columns - w.length) \div width ELSE 0)
         ELSE WrapAppend(WrapPush(w), chunk, width)
    ELSE WrapAppend(w, chunk, width)

RECURSIVE WrapChunks(_, _, _, _)
WrapChunks(w, chunks, columns, width) ==
    IF chunks = <<>> THEN w
    ELSE WrapChunks(WrapChunk(w, Head(chunks), columns, width), Tail(chunks), columns, width)

\* if (line.length > 0) push the line being filled
WrapPushFilled(w) == IF Len(w.line) > 0 THEN WrapPush(w) ELSE w

\* One line of the value; a line without chunks ('~~empty~~') pushes the line
\* being filled
WrapLine(w, chunks, columns, width) ==
    WrapPushFilled(IF chunks = <<>> THEN WrapPush(w)
                   ELSE WrapChunks(w, chunks, columns, width))

\* The loop over the lines of the value
RECURSIVE WrapLines(_, _, _, _)
WrapLines(w, lines, columns, width) ==
    IF lines = <<>> THEN w
    ELSE WrapLines(WrapLine(w, ChunksFrom(Head(lines), 0), columns, width),
                   Tail(lines), columns, width)

\* String.prototype.trimEnd
trimEnd(s) ==
    SubSeq(s, 1, CHOOSE k \in 0..Len(s) :
                    /\ k = 0 \/ s[k] \notin (WhitespaceChars \cup {Newline})
                    /\ \A j \in (k + 1)..Len(s) : s[j] \in (WhitespaceChars \cup {Newline}))

\* Every line but the last loses its trailing whitespace
TrimLines(result) ==
    [i \in 1..Len(result) |-> IF i < Len(result) THEN trimEnd(result[i]) ELSE result[i]]

\* TextWrap.wrap(value, {columns, width, indent})
wrap(value, columns, width, indent) ==
    TrimLines(WrapLines([result |-> <<>>, line |-> <<>>, length |-> indent],
                        SplitLines(value),
                        IF columns = 0 THEN 42 ELSE columns,
                        IF width = 0 THEN 1 ELSE width).result)

(***************************************************************************)
(* Inputs of the wrapping runs: texts of a few tokens (words, a word        *)
(* longer than a line, a space, a hyphen, a line break), the columns, the  *)
(* width of a character and the cells already used on the line.            *)
(***************************************************************************)
LongWord == <<"a", "b", "b", "a", "a", "a", "b", "a", "b", "b", "b", "a", "b">>
WrapTokens == {<<"a">>, <<"a", "b">>, LongWord, <<" ">>, <<Hyphen>>, <<Newline>>}
MaxWrapTokens == 3
WrapTexts ==
    {Flatten(tokens) : tokens \in UNION {[1..n -> WrapTokens] : n \in 0..MaxWrapTokens}}
WrapColumns == {1, 2, 3, 12, 20}
WrapWidths == {1, 2, 3}
WrapIndents(columns) == {0, 1, 3, 4, columns} \cap 0..columns

WrapRun(pc, value, columns, width, indent, lines) ==
    [pc |-> pc, value |-> value, columns |-> columns, width |-> width,
     indent |-> indent, lines |-> lines]

WrapIdle == WrapRun("done", <<>>, 1, 1, 0, <<>>)

WrapSettings ==
    {dims \in WrapColumns \X WrapWidths \X (0..20) : dims[3] \in WrapIndents(dims[1])}

WrapInit ==
    wrapper \in {WrapRun("idle", value, dims[1], dims[2], dims[3], <<>>) :
                    value \in WrapTexts, dims \in WrapSettings}

\* TextWrap.wrap is called on the text
WrapCall ==
    /\ wrapper.pc = "idle"
    /\ wrapper' = [wrapper EXCEPT !.pc = "done",
                                  !.lines = wrap(wrapper.value, wrapper.columns,
                                                 wrapper.width, wrapper.indent)]

(***************************************************************************)
(* Command items.  Every item is a record of the same shape; the fields an *)
(* item of the source does not have hold their zero.  codepage "null" is   *)
(* the null codepage; hasPayload tells an item with a payload property.    *)
(***************************************************************************)
Item(type) ==
    [type |-> type, value |-> "", text |-> <<>>, codepage |-> "null", size |-> 0,
     property |-> "", on |-> FALSE, width |-> 0, height |-> 0,
     payload |-> <<>>, hasPayload |-> FALSE]

TextItem(text, codepage) == [Item("text") EXCEPT !.text = text, !.codepage = codepage]
SpaceItem(size) == [Item("space") EXCEPT !.size = size]
RawItem(payload) == [Item("raw") EXCEPT !.payload = payload, !.hasPayload = TRUE]
AlignItem(value) == [Item("align") EXCEPT !.value = value]
EmptyItem == Item("empty")
StyleItem(property, on) == [Item("style") EXCEPT !.property = property, !.on = on]
SizeItem(width, height) ==
    [Item("style") EXCEPT !.property = "size", !.width = width, !.height = height]
\* An item a dialect driver returns: it carries its payload
PayloadItem(type, value, payload) ==
    [Item(type) EXCEPT !.value = value, !.payload = payload, !.hasPayload = TRUE]

(***************************************************************************)
(* TextStyle                                                               *)
(***************************************************************************)
DefaultStyle ==
    [bold |-> FALSE, italic |-> FALSE, underline |-> FALSE, invert |-> FALSE,
     width |-> 1, height |-> 1]

FlagProperties == <<"bold", "italic", "underline", "invert">>

\* The items of the properties that differ from the default, in property
\* order, width and height folded into one size item, taking the values of
\* the style `to`
StyleDelta(current, to) ==
    LET flags == [k \in 1..4 |->
                    IF current[FlagProperties[k]] # DefaultStyle[FlagProperties[k]]
                    THEN <<StyleItem(FlagProperties[k], to[FlagProperties[k]])>>
                    ELSE <<>>]
        size == IF current.width # DefaultStyle.width \/ current.height # DefaultStyle.height
                THEN <<SizeItem(to.width, to.height)>>
                ELSE <<>>
    IN  Flatten(flags) \o size

\* TextStyle.store(): the items that take the current style to the default
store(style) == StyleDelta(style, DefaultStyle)

\* Nothing is kept for the next line
RestoreNothing(style) == <<>>

\* TextStyle.restore(): the items that take the default style to the current
restore(style) == StyleDelta(style, style)

(***************************************************************************)
(* LineComposer, as operators on the composer's record                     *)
(*   [embedded, columns, align, cursor, stored, buffer, style, queue,      *)
(*    threw]                                                               *)
(* queue is the encoder's queue the callback pushes to; threw records that *)
(* an exception is propagating, which skips the rest of the call.          *)
(***************************************************************************)
NewComposer(embedded, columns) ==
    [embedded |-> embedded,
     columns |-> IF columns = 0 THEN 42 ELSE columns,
     align |-> "left",
     cursor |-> 0,
     stored |-> store(DefaultStyle),
     buffer |-> <<>>,
     style |-> DefaultStyle,
     queue |-> <<>>,
     threw |-> FALSE]

FlushOptions(forceNewline, forceFlush, ignoreAlignment) ==
    [forceNewline |-> forceNewline, forceFlush |-> forceFlush,
     ignoreAlignment |-> ignoreAlignment]
NoOptions == FlushOptions(FALSE, FALSE, FALSE)
ForceNewline == FlushOptions(TRUE, FALSE, FALSE)
ForceFlush == FlushOptions(FALSE, TRUE, TRUE)

\* Two text items may merge when their codepages are equal or one is null
AllowTextMerge(lastItem, item) ==
    /\ lastItem.type = "text"
    /\ \/ lastItem.codepage = item.codepage
       \/ lastItem.codepage = "null"
       \/ item.codepage = "null"

\* #merge: spaces become text, adjacent compatible text items and adjacent
\* size items merge.  ' '.repeat of a negative size throws.
RECURSIVE MergeInto(_, _)
MergeInto(acc, items) ==
    IF items = <<>> \/ acc.threw THEN acc
    ELSE LET raw == Head(items)
             rest == Tail(items)
             result == acc.result
             n == Len(result)
         IN  IF raw.type = "space" /\ raw.size = 0 THEN MergeInto(acc, rest)
             ELSE IF raw.type = "space" /\ raw.size < 0
                  THEN [acc EXCEPT !.threw = TRUE]
             ELSE LET item == IF raw.type = "space"
                              THEN TextItem(Repeat(" ", raw.size), "null")
                              ELSE raw
                  IN  IF item.type = "text"
                      THEN IF n > 0 /\ AllowTextMerge(result[n], item)
                           THEN MergeInto(
                                  [acc EXCEPT !.result[n].text = @ \o item.text,
                                              !.result[n].codepage =
                                                  IF @ = "null" THEN item.codepage ELSE @],
                                  rest)
                           ELSE MergeInto([acc EXCEPT !.result = Append(@, item)], rest)
                      ELSE IF item.type = "style" /\ item.property = "size"
                      THEN IF n > 0 /\ result[n].type = "style" /\ result[n].property = "size"
                           THEN MergeInto(
                                  [acc EXCEPT !.result[n].width = item.width,
                                              !.result[n].height = item.height],
                                  rest)
                           ELSE MergeInto([acc EXCEPT !.result = Append(@, item)], rest)
                      ELSE MergeInto([acc EXCEPT !.result = Append(@, item)], rest)

merge(items) == MergeInto([result |-> <<>>, threw |-> FALSE], items)

LayoutAlign(item) == item.type = "align" /\ ~item.hasPayload

\* The index of the last text or space item of the buffer, 0 when none
LastTextOrSpace(buffer) ==
    IF \A i \in 1..Len(buffer) : buffer[i].type \notin {"text", "space"} THEN 0
    ELSE CHOOSE i \in 1..Len(buffer) :
            /\ buffer[i].type \in {"text", "space"}
            /\ \A j \in (i + 1)..Len(buffer) : buffer[j].type \notin {"text", "space"}

\* this.style.width, as read while the trailing space is stripped
StripWidth(c, buffer, last) == c.style.width

\* The trailing space of the item at `last` is removed and the cursor moved
\* back by w
StripAt(c, buffer, last, w) ==
    IF last = 0 THEN [buffer |-> buffer, cursor |-> c.cursor]
    ELSE IF buffer[last].type = "space" /\ buffer[last].size > w
         THEN [buffer |-> [buffer EXCEPT ![last].size = @ - w], cursor |-> c.cursor - w]
    ELSE IF buffer[last].type = "text" /\ Len(buffer[last].text) > 0
            /\ buffer[last].text[Len(buffer[last].text)] = " "
         THEN [buffer |-> [buffer EXCEPT ![last].text = SubSeq(@, 1, Len(@) - 1)],
               cursor |-> c.cursor - w]
    ELSE [buffer |-> buffer, cursor |-> c.cursor]

\* The right-aligned line: the trailing space of the last text or space item
\* is removed and the cursor moved back by the style's width
StripTrailing(c, buffer) ==
    StripAt(c, buffer, LastTextOrSpace(buffer),
            StripWidth(c, buffer, LastTextOrSpace(buffer)))

\* The alignment of the line being fetched and of the next one
AlignOfLine(c) ==
    IF \A i \in 1..(Len(c.buffer) - 1) : ~LayoutAlign(c.buffer[i]) THEN c.align
    ELSE c.buffer[CHOOSE i \in 1..(Len(c.buffer) - 1) :
                    /\ LayoutAlign(c.buffer[i])
                    /\ \A j \in (i + 1)..(Len(c.buffer) - 1) : ~LayoutAlign(c.buffer[j])].value

AlignOfNext(c) ==
    IF Len(c.buffer) > 0 /\ LayoutAlign(c.buffer[Len(c.buffer)])
    THEN c.buffer[Len(c.buffer)].value
    ELSE "none"

\* The buffer without its alignment changes
Clean(items) == SelectSeq(items, LAMBDA item : ~LayoutAlign(item))

\* if (this.#cursor === 0 && (options.ignoreAlignment || !this.#embedded))
PlainLine(c, options) == c.cursor = 0 /\ (options.ignoreAlignment \/ ~c.embedded)

\* The buffer and the cursor after the strip of a right-aligned line; the
\* items stripped are the buffer's own objects
Stripped(c, options, current) ==
    IF ~PlainLine(c, options) /\ current = "right"
    THEN StripTrailing(c, c.buffer)
    ELSE [buffer |-> c.buffer, cursor |-> c.cursor]

\* The items handed to #merge for the alignment of the line
LineItems(c, options, current, buffer, cursor, stored) ==
    IF PlainLine(c, options) THEN c.stored \o buffer \o stored
    ELSE IF current = "right"
         THEN <<SpaceItem(c.columns - cursor)>> \o c.stored \o buffer \o stored
    ELSE IF current = "center"
         THEN <<SpaceItem((c.columns - cursor) \div 2)>> \o c.stored \o buffer \o stored
                \o <<SpaceItem(IF c.embedded
                               THEN c.columns - cursor - ((c.columns - cursor) \div 2)
                               ELSE 0)>>
    ELSE IF current = "left"
         THEN c.stored \o buffer \o stored
                \o <<SpaceItem(IF c.embedded THEN c.columns - cursor ELSE 0)>>
    ELSE <<>>

\* The composer and the line returned once the items are merged
Fetched(c, options, current, next, strippedAll, merged) ==
    IF merged.threw
    THEN [c |-> [c EXCEPT !.align = current, !.cursor = strippedAll.cursor,
                          !.buffer = strippedAll.buffer, !.threw = TRUE],
          result |-> <<>>]
    ELSE [c |-> [c EXCEPT !.align = IF next # "none" THEN next ELSE current,
                          !.stored = restore(c.style),
                          !.buffer = <<>>,
                          !.cursor = 0],
          result |-> IF merged.result = <<>> /\ options.forceNewline
                     THEN <<EmptyItem>> ELSE merged.result]

FetchLine(c, options, current, strippedAll) ==
    Fetched(c, options, current, AlignOfNext(c), strippedAll,
            merge(LineItems(c, options, current, Clean(strippedAll.buffer),
                            strippedAll.cursor, store(c.style))))

\* LineComposer.fetch: the composer after the call and the line returned
fetch(c, options) ==
    IF c.threw THEN [c |-> c, result |-> <<>>]
    ELSE IF c.cursor = 0 /\ ~options.forceNewline /\ ~options.forceFlush
    THEN [c |-> c, result |-> <<>>]
    ELSE FetchLine(c, options, AlignOfLine(c), Stripped(c, options, AlignOfLine(c)))

\* The line fetched goes to the queue when it is not empty
Queued(f) == IF Len(f.result) > 0 THEN [f.c EXCEPT !.queue = Append(@, f.result)] ELSE f.c

\* LineComposer.flush
flush(c, options) == Queued(fetch(c, options))

\* The item joins the buffer and the cursor moves by its length
Buffered(c, item, length) ==
    IF c.threw THEN c ELSE [c EXCEPT !.cursor = @ + length, !.buffer = Append(@, item)]

\* LineComposer.add for a single item
add(c, item, length) ==
    IF c.threw THEN c
    ELSE Buffered(IF length + c.cursor > c.columns THEN flush(c, NoOptions) ELSE c,
                  item, length)

\* LineComposer.add for an array of items: each is added with no length,
\* then the cursor moves by the length given for the array
RECURSIVE addEach(_, _)
addEach(c, items) ==
    IF items = <<>> THEN c ELSE addEach(add(c, Head(items), 0), Tail(items))

Advanced(c, length) == IF c.threw THEN c ELSE [c EXCEPT !.cursor = @ + length]

addAll(c, items, length) == Advanced(addEach(c, items), length)

\* LineComposer.space, raw, end and the align setter and getter
space(c, size) == add(c, SpaceItem(size), size)
raw(c, payload) == add(c, RawItem(payload), 0)
end(c) == IF c.threw THEN c ELSE [c EXCEPT !.cursor = c.columns]
setAlign(c, value) == add(c, AlignItem(value), 0)
getAlign(c) ==
    IF \A i \in 1..Len(c.buffer) : c.buffer[i].type # "align" THEN c.align
    ELSE c.buffer[CHOOSE i \in 1..Len(c.buffer) :
                    /\ c.buffer[i].type = "align"
                    /\ \A j \in (i + 1)..Len(c.buffer) : c.buffer[j].type # "align"].value

\* The style setters: a changed value is stored and reported to the callback,
\* which adds the item with no length
setFlag(c, property, on) ==
    IF c.threw \/ c.style[property] = on THEN c
    ELSE add([c EXCEPT !.style[property] = on], StyleItem(property, on), 0)

setWidth(c, width) ==
    IF c.threw \/ c.style.width = width THEN c
    ELSE add([c EXCEPT !.style.width = width], SizeItem(width, c.style.height), 0)

setHeight(c, height) ==
    IF c.threw \/ c.style.height = height THEN c
    ELSE add([c EXCEPT !.style.height = height], SizeItem(c.style.width, height), 0)

\* for each wrapped line: a line with text is added and, unless it is the
\* last, flushed; an empty line is flushed with a forced newline
FlushUnless(c, isLast) == IF isLast THEN c ELSE flush(c, NoOptions)

textLine(c, wrapped, isLast, codepage) ==
    IF Len(wrapped) > 0
    THEN FlushUnless(add(c, TextItem(wrapped, codepage), Len(wrapped) * c.style.width),
                     isLast)
    ELSE flush(c, ForceNewline)

RECURSIVE textLines(_, _, _, _)
textLines(c, lines, i, codepage) ==
    IF i > Len(lines) \/ c.threw THEN c
    ELSE textLines(textLine(c, lines[i], i = Len(lines), codepage), lines, i + 1, codepage)

\* LineComposer.text
text(c, value, codepage) ==
    IF c.threw THEN c
    ELSE textLines(c, wrap(value, c.columns, c.style.width, c.cursor), 1, codepage)

(***************************************************************************)
(* ImageEncoder: column strips and the commands built from image data      *)
(***************************************************************************)
\* byte |= getPixel(x, y + b) << (7 - b) for b = 0..7
ColumnByte(image, x, y, width, height) ==
    SumSeq([b \in 1..8 |-> getPixel(image, x, y + (b - 1), width, height) * Pow2(7 - (b - 1))])

\* The rows of one column strip
ColumnStripHeight == 24

\* pixelsToColumns: only the image object is validated
pixelsToColumns(image, width, height) ==
    IF ~ValidImage(image) THEN [threw |-> TRUE, strips |-> <<>>]
    ELSE [threw |-> FALSE,
          strips |-> [s \in 1..CeilDiv(height, ColumnStripHeight) |->
                        [k \in 1..(width * 3) |->
                           ColumnByte(image, (k - 1) \div 3,
                                      (s - 1) * ColumnStripHeight + ((k - 1) % 3) * 8,
                                      width, height)]]]

\* The high byte of a count is lost
HighByteLost(n) == 0

\* The low and the high byte of a 16 bit count
LowByte(n) == n % 256
HighByte(n) == (n \div 256) % 256

\* GS v 0 with its mode, the width in bytes and the height, then the data
RasterCommand(data, widthBytes, height, compressed) ==
    [command |-> <<29, 118, 48, IF compressed THEN 1 ELSE 0,
                   LowByte(widthBytes), HighByte(widthBytes),
                   LowByte(height), HighByte(height)>> \o data,
     compressed |-> compressed]

\* The compressed data are sent whenever they are shorter
RasterCommandAlwaysTried(rasterData, widthBytes, height, useCompression, rleResult) ==
    RasterCommand(IF rleResult.compressed THEN rleResult.data ELSE rasterData,
                  widthBytes, height, rleResult.compressed)

\* The compressed data are sent when compression is asked for and shortens
RasterCommandOf(rasterData, widthBytes, height, useCompression, rleResult) ==
    RasterCommand(IF useCompression /\ rleResult.compressed THEN rleResult.data
                  ELSE rasterData,
                  widthBytes, height, useCompression /\ rleResult.compressed)

buildRasterCommand(rasterData, widthBytes, height, useCompression) ==
    RasterCommandOf(rasterData, widthBytes, height, useCompression,
                    compressRLE(rasterData))

buildColumnCommand(stripData, width) ==
    <<27, 42, 33, LowByte(width), HighByte(width)>> \o stripData \o <<10>>

buildStarColumnCommand(stripData, width) ==
    <<27, 88, LowByte(width), HighByte(width)>> \o stripData \o <<10, 13>>

\* generateChunks: the chunks of a payload, an exception for a chunk size
\* that is not positive unless the payload is empty
\* The end offset falls one byte short
ChunkEndShort(byteOffset, chunkSize, totalBytes) ==
    Min(byteOffset + chunkSize, totalBytes) - 1

\* const endOffset = Math.min(byteOffset + chunkSize, totalBytes)
ChunkEnd(byteOffset, chunkSize, totalBytes) == Min(byteOffset + chunkSize, totalBytes)

generateChunks(payload, chunkSize) ==
    IF Len(payload) = 0 THEN [threw |-> FALSE, chunks |-> <<>>]
    ELSE IF chunkSize <= 0 THEN [threw |-> TRUE, chunks |-> <<>>]
    ELSE LET totalBytes == Len(payload)
             totalChunks == CeilDiv(totalBytes, chunkSize)
         IN  [threw |-> FALSE,
              chunks |-> [k \in 1..totalChunks |->
                            LET byteOffset == (k - 1) * chunkSize
                            IN  [chunk |-> Slice(payload, byteOffset,
                                                 ChunkEnd(byteOffset, chunkSize, totalBytes)),
                                 index |-> k - 1,
                                 total |-> totalChunks,
                                 isLast |-> (k - 1) = totalChunks - 1,
                                 byteOffset |-> byteOffset,
                                 totalBytes |-> totalBytes]]]

(***************************************************************************)
(* The dialect drivers.  A driver returns items that carry their payload.  *)
(* ESC/POS is modelled for every command the encoder uses, StarPRNT for    *)
(* the alignment and the image commands.                                   *)
(***************************************************************************)
\* CodepageEncoder.encode for the characters of the model, which every
\* codepage encodes as ASCII
CharCode(ch) ==
    CASE ch = "a" -> 97
      [] ch = "b" -> 98
      [] ch = " " -> 32
      [] ch = "-" -> 45
      [] ch = "\n" -> 10
      [] ch = "1" -> 49
      [] OTHER -> 63

EncodeChars(value) == [k \in 1..Len(value) |-> CharCode(value[k])]

AlignByte(value) == IF value = "center" THEN 1 ELSE IF value = "right" THEN 2 ELSE 0

LanguageInitialize ==
    <<PayloadItem("initialize", "", <<27, 64>>),
      PayloadItem("character-mode", "single byte", <<28, 46>>),
      PayloadItem("font", "A", <<27, 77, 0>>)>>

LanguageFont(value) ==
    <<PayloadItem("font", value,
                  <<27, 77, IF value = "A" THEN 0 ELSE IF value = "B" THEN 1 ELSE 2>>)>>

LanguageAlign(language, value) ==
    IF language = "esc-pos"
    THEN <<PayloadItem("align", value, <<27, 97, AlignByte(value)>>)>>
    ELSE <<PayloadItem("align", value, <<27, 29, 97, AlignByte(value)>>)>>

\* The ESC/POS identifiers of the symbologies of the model; a symbology given
\* as a number, written here in digits, is its own identifier
SymbologyId(symbology) ==
    CASE symbology = "ean13" -> 2
      [] symbology = "code39" -> 4
      [] symbology = "code93" -> 72
      [] symbology = "gs1-128" -> 72
      [] symbology = "75" -> 75
      [] OTHER -> -1

\* barcode with the options {height: 60, width: 2, text: false}
LanguageBarcode(value, symbology) ==
    LET identifier == SymbologyId(symbology)
        bytes == EncodeChars(value)
        width == IF symbology = "gs1-128" THEN 2 ELSE 3
    IN  IF identifier < 0 THEN [threw |-> TRUE, items |-> <<>>]
        ELSE [threw |-> FALSE,
              items |-> <<PayloadItem("barcode", "height", <<29, 104, 60>>),
                          PayloadItem("barcode", "width", <<29, 119, width>>),
                          PayloadItem("barcode", "text", <<29, 72, 0>>),
                          PayloadItem("barcode", "data",
                              IF identifier > 64
                              THEN <<29, 107, identifier, Len(bytes)>> \o bytes
                              ELSE <<29, 107, identifier>> \o bytes \o <<0>>)>>]

\* qrcode with the options {size: 6, errorlevel: 'm'} and the model given
LanguageQrcode(value, model) ==
    LET bytes == EncodeChars(value)
        length == Len(bytes) + 3
    IN  IF model \notin {1, 2} THEN [threw |-> TRUE, items |-> <<>>]
        ELSE [threw |-> FALSE,
              items |-> <<PayloadItem("qrcode", "model",
                              <<29, 40, 107, 4, 0, 49, 65, 48 + model, 0>>),
                          PayloadItem("qrcode", "size", <<29, 40, 107, 3, 0, 49, 67, 6>>),
                          PayloadItem("qrcode", "errorlevel", <<29, 40, 107, 3, 0, 49, 69, 49>>),
                          PayloadItem("qrcode", "data",
                              <<29, 40, 107, LowByte(length), HighByte(length), 49, 80, 48>>
                                \o bytes),
                          PayloadItem("qrcode", "print", <<29, 40, 107, 3, 0, 49, 81, 48>>)>>]

\* pdf417 with the options {width: 3, height: 3, columns: 0, rows: 0,
\* errorlevel: 1, truncated: false}
LanguagePdf417(value) ==
    LET bytes == EncodeChars(value)
        length == Len(bytes) + 3
    IN  <<PayloadItem("pdf417", "columns", <<29, 40, 107, 3, 0, 48, 65, 0>>),
          PayloadItem("pdf417", "rows", <<29, 40, 107, 3, 0, 48, 66, 0>>),
          PayloadItem("pdf417", "width", <<29, 40, 107, 3, 0, 48, 67, 3>>),
          PayloadItem("pdf417", "height", <<29, 40, 107, 3, 0, 48, 68, 3>>),
          PayloadItem("pdf417", "errorlevel", <<29, 40, 107, 4, 0, 48, 69, 48, 49>>),
          PayloadItem("pdf417", "truncated", <<29, 40, 107, 3, 0, 48, 70, 0>>),
          PayloadItem("pdf417", "data",
              <<29, 40, 107, LowByte(length), HighByte(length), 48, 80, 48>> \o bytes),
          PayloadItem("pdf417", "print", <<29, 40, 107, 3, 0, 48, 81, 48>>)>>

IMAGE_STRIP_HEIGHT == 512

ImageItem(value, width, height, payload) ==
    [PayloadItem("image", value, payload) EXCEPT !.width = width, !.height = height]

\* LanguageEscPos._processImageSync and LanguageStarPrnt._processImageSync,
\* which the images of the model, all small, are processed by
RasterItem(rasterStrip, width, useCompression) ==
    ImageItem("raster", width, rasterStrip.height,
              buildRasterCommand(rasterStrip.data, rasterStrip.widthBytes,
                                 rasterStrip.height, useCompression).command)

RasterItems(r, width, useCompression) ==
    [threw |-> r.threw,
     items |-> [k \in 1..Len(r.strips) |-> RasterItem(r.strips[k], width, useCompression)]]

ColumnItems(language, r, width) ==
    [threw |-> r.threw,
     items |->
       IF language = "esc-pos"
       THEN <<PayloadItem("line-spacing", "24 dots", <<27, 51, 36>>)>>
              \o [k \in 1..Len(r.strips) |->
                    ImageItem("column", width, 24, buildColumnCommand(r.strips[k], width))]
              \o <<PayloadItem("line-spacing", "default", <<27, 50>>)>>
       ELSE [k \in 1..Len(r.strips) |->
               ImageItem("column", width, 24, buildStarColumnCommand(r.strips[k], width))]]

LanguageImage(language, image, width, height, mode, useCompression) ==
    IF language = "esc-pos" /\ mode = "raster"
    THEN RasterItems(pixelsToRasterStrips(image, width, height, IMAGE_STRIP_HEIGHT),
                     width, useCompression)
    ELSE ColumnItems(language, pixelsToColumns(image, width, height), width)

LanguageCut(language, value) ==
    IF language = "esc-pos"
    THEN <<PayloadItem("cut", "", <<29, 86, IF value = "partial" THEN 1 ELSE 0>>)>>
    ELSE <<PayloadItem("cut", "", <<27, 100, IF value = "partial" THEN 1 ELSE 0>>)>>

\* Math.round of half and of a tenth of a non-negative number of milliseconds
RoundHalf(ms) == (ms + 1) \div 2
RoundTenth(ms) == (ms + 5) \div 10

LanguagePulse(language, device, on, off) ==
    IF language = "esc-pos"
    THEN <<PayloadItem("pulse", "",
              <<27, 112, IF device # 0 THEN 1 ELSE 0,
                Min(500, RoundHalf(on)) % 256, Min(500, RoundHalf(off)) % 256>>)>>
    ELSE <<PayloadItem("pulse", "",
              <<27, 7, Min(127, RoundTenth(on)) % 256, Min(127, RoundTenth(off)) % 256,
                IF device # 0 THEN 26 ELSE 7>>)>>

LanguageStyle(property, on) ==
    CASE property = "bold" -> <<27, 69, IF on THEN 1 ELSE 0>>
      [] property = "underline" -> <<27, 45, IF on THEN 1 ELSE 0>>
      [] property = "italic" -> <<27, 52, IF on THEN 1 ELSE 0>>
      [] property = "invert" -> <<29, 66, IF on THEN 1 ELSE 0>>

\* (height - 1) | (width - 1) << 4 for sizes of 1 to 8
LanguageSize(width, height) == <<29, 33, (height - 1) + 16 * (width - 1)>>

LanguageCodepage(value) == <<27, 116, value>>

\* LanguageEscPos.flush and LanguageStarPrnt.flush
LanguageFlush(language) ==
    IF language = "esc-pos" THEN <<>>
    ELSE <<PayloadItem("print-mode", "page", <<27, 29, 80, 48>>),
           PayloadItem("print-mode", "line", <<27, 29, 80, 49>>)>>

(***************************************************************************)
(* ReceiptPrinterEncoder.  The encoder is a record                         *)
(*   [options, caps, composer, codepage, state, error]                     *)
(* whose composer holds the queue too; error is the message of the         *)
(* exception the call in progress has thrown, "" when none.                *)
(***************************************************************************)
DefaultSymbologies ==
    {"upca", "upce", "ean13", "ean8", "code39", "itf", "codabar", "code93", "code128",
     "gs1-databar-omni", "gs1-databar-truncated", "gs1-databar-limited",
     "gs1-databar-expanded"}

LegacySymbologies ==
    {"upca", "upce", "ean13", "ean8", "code39", "itf", "codabar", "code93", "code128"}

\* #printerCapabilities as the class declares it
DefaultCapabilities ==
    [language |-> "esc-pos", codepages |-> "epson",
     fonts |-> [A |-> 42, B |-> 56],
     barcodes |-> TRUE, symbologies |-> DefaultSymbologies,
     qrcode |-> TRUE, models |-> {1, 2},
     pdf417 |-> TRUE, fallback |-> "",
     newline |-> "", feed |-> 0, imageMode |-> "", supportsCompression |-> FALSE]

\* printerDefinitions: the printers of the model.  A font the printer does
\* not have has 0 columns, a setting the definition leaves out is "" or 0.
printerDefinitions(printerModel) ==
    CASE printerModel = "bixolon-srp350" ->
           [DefaultCapabilities EXCEPT !.codepages = "bixolon/legacy",
                                       !.symbologies = LegacySymbologies,
                                       !.qrcode = FALSE, !.models = {},
                                       !.pdf417 = FALSE, !.feed = 4]
      [] printerModel = "hp-a779" ->
           [DefaultCapabilities EXCEPT !.codepages = "hp", !.newline = "\n",
                                       !.fonts = [A |-> 44, B |-> 0],
                                       !.symbologies = LegacySymbologies,
                                       !.pdf417 = FALSE, !.fallback = "75",
                                       !.feed = 4, !.supportsCompression = TRUE]
      [] printerModel = "pos-5890" ->
           [DefaultCapabilities EXCEPT !.codepages = "pos-5890",
                                       !.fonts = [A |-> 32, B |-> 42],
                                       !.symbologies = LegacySymbologies \ {"upce"},
                                       !.models = {2}, !.imageMode = "raster", !.feed = 1]

PrinterModels == {"bixolon-srp350", "hp-a779", "pos-5890"}

\* codepageMappings: the id of a codepage in a mapping, -2 when the mapping
\* does not have it
codepageMappings(mapping, codepage) ==
    CASE codepage = "cp437" -> IF mapping = "star" THEN 1 ELSE 0
      [] codepage = "cp858" ->
           IF mapping = "star" THEN 4
           ELSE IF mapping = "hp" THEN 6
           ELSE 19
      [] codepage = "star/standard" -> IF mapping = "star" THEN 0 ELSE -2
      [] OTHER -> -2

\* Object.keys of the mapping: the first candidate of codepage 'auto'
FirstCandidate(mapping) == IF mapping = "star" THEN "star/standard" ELSE "cp437"

\* The options a caller passes; 0, "" and "unset" stand for an option left out
NoOptionsGiven ==
    [printerModel |-> "", language |-> "", columns |-> 0, width |-> 0,
     embedded |-> FALSE, errors |-> "", imageMode |-> "", autoFlush |-> "unset",
     feedBeforeCut |-> 0, newline |-> "", codepageMapping |-> ""]

ValidColumns == {32, 35, 42, 44, 48}

\* #reset
reset(e) ==
    [e EXCEPT !.composer.queue = <<>>,
              !.codepage = IF e.options.language = "esc-pos" THEN "cp437"
                           ELSE "star/standard",
              !.state = [codepage |-> -1, font |-> "A"]]

\* The constructor: the options resolved against the defaults of the
\* dialect and of the printer, the composer created, the state reset
HasModel(given) == given.printerModel # ""
KnownModel(given) == given.printerModel \in PrinterModels
EscPosGiven(given) == given.language = "" \/ given.language = "esc-pos"

CapabilitiesOf(given) ==
    IF HasModel(given) /\ KnownModel(given) THEN printerDefinitions(given.printerModel)
    ELSE DefaultCapabilities

LanguageOf(given, caps) ==
    IF given.language # "" THEN given.language
    ELSE IF HasModel(given) THEN caps.language ELSE "esc-pos"

ColumnsOf(given, caps) ==
    IF given.width # 0 THEN given.width
    ELSE IF given.columns # 0 THEN given.columns
    ELSE IF HasModel(given) THEN caps.fonts.A
    ELSE IF EscPosGiven(given) THEN 42 ELSE 48

OptionsOf(given, caps, language, columns) ==
    [printerModel |-> given.printerModel,
     language |-> language,
     columns |-> columns,
     width |-> given.width,
     embedded |-> given.embedded,
     errors |-> IF given.errors # "" THEN given.errors ELSE "relaxed",
     imageMode |-> IF given.imageMode # "" THEN given.imageMode
                   ELSE IF HasModel(given) /\ caps.imageMode # "" THEN caps.imageMode
                   ELSE "column",
     autoFlush |-> IF given.autoFlush # "unset" THEN given.autoFlush
                   ELSE IF ~given.embedded /\ language = "star-prnt" THEN "on"
                   ELSE "off",
     feedBeforeCut |-> IF given.feedBeforeCut # 0 THEN given.feedBeforeCut
                       ELSE IF HasModel(given) THEN caps.feed ELSE 0,
     newline |-> IF given.newline # "" THEN given.newline
                 ELSE IF HasModel(given) /\ caps.newline # "" THEN caps.newline
                 ELSE "\n\r",
     codepageMapping |-> IF given.codepageMapping # "" THEN given.codepageMapping
                         ELSE IF HasModel(given) THEN caps.codepages
                         ELSE IF EscPosGiven(given) THEN "epson"
                         ELSE "star"]

ConstructorError(given, language, columns) ==
    IF HasModel(given) /\ ~KnownModel(given) THEN "Unknown printer model"
    ELSE IF language \notin {"esc-pos", "star-prnt", "star-line"}
         THEN "The specified language is not supported"
    ELSE IF columns \notin ValidColumns /\ ~given.embedded
         THEN "The width of the paper must me either 32, 35, 42, 44 or 48 columns"
    ELSE ""

Constructed(given, caps, language, columns) ==
    reset([options |-> OptionsOf(given, caps, language, columns),
           caps |-> caps,
           composer |-> NewComposer(given.embedded, columns),
           codepage |-> "cp437",
           state |-> [codepage |-> 0, font |-> "A"],
           error |-> ConstructorError(given, language, columns)])

ConstructedWith(given, caps) ==
    Constructed(given, caps, LanguageOf(given, caps), ColumnsOf(given, caps))

constructor(given) == ConstructedWith(given, CapabilitiesOf(given))

Throw(e, message) == [e EXCEPT !.error = message]

\* The encoder after a call on its composer: an exception of the composer
\* is the call's
Composed(e, c) ==
    [e EXCEPT !.composer = c, !.error = IF c.threw THEN "RangeError" ELSE e.error]

EmbeddedError == "not supported in table cells or boxes"

\* The guard is lost: no encoder counts as embedded
NeverEmbedded(e) == FALSE

\* this.#options.embedded, as the guarded methods test it
IsEmbedded(e) == e.options.embedded

\* #error turned strict whatever the errors option says
errorAlwaysThrown(e, message, level) == [e EXCEPT !.error = message]

\* #error
error(e, message, level) ==
    IF level = "strict" \/ e.options.errors = "strict" THEN Throw(e, message) ELSE e

initialize(e) ==
    IF e.error # "" THEN e
    ELSE IF IsEmbedded(e) THEN Throw(e, EmbeddedError)
    ELSE Composed(e, addAll(e.composer, LanguageInitialize, 0))

\* CodepageEncoder.supports, for the codepages of the model
SupportedCodepages == {"cp437", "cp858", "star/standard"}

codepage(e, value) ==
    IF e.error # "" THEN e
    ELSE IF value = "auto" THEN [e EXCEPT !.codepage = value]
    ELSE IF value \notin SupportedCodepages THEN Throw(e, "Unknown codepage")
    ELSE IF codepageMappings(e.options.codepageMapping, value) # -2
         THEN [e EXCEPT !.codepage = value]
    ELSE Throw(e, "Codepage not supported by printer")

encoderText(e, value) ==
    IF e.error # "" THEN e ELSE Composed(e, text(e.composer, value, e.codepage))

RECURSIVE flushTimes(_, _, _)
flushTimes(c, n, options) ==
    IF n <= 0 THEN c ELSE flushTimes(flush(c, options), n - 1, options)

\* newline(value): parseInt(value, 10) || 1 forced newlines
newline(e, value) ==
    IF e.error # "" THEN e
    ELSE Composed(e, flushTimes(e.composer, IF value = 0 THEN 1 ELSE value, ForceNewline))

line(e, value) == newline(encoderText(e, value), 0)

\* bold, italic, underline and invert with a value given
style(e, property, on) ==
    IF e.error # "" THEN e ELSE Composed(e, setFlag(e.composer, property, on))

\* The same four without a value: the property is toggled
toggle(e, property) == style(e, property, ~e.composer.style[property])

width(e, value) ==
    IF e.error # "" THEN e
    ELSE IF value < 1 \/ value > 8 THEN Throw(e, "Width must be between 1 and 8")
    ELSE Composed(e, setWidth(e.composer, value))

height(e, value) ==
    IF e.error # "" THEN e
    ELSE IF value < 1 \/ value > 8 THEN Throw(e, "Height must be between 1 and 8")
    ELSE Composed(e, setHeight(e.composer, value))

size(e, w, h) == height(width(e, w), h)

\* The columns of a font; the options of the model make the division exact
FontColumns(e, value) ==
    IF value = "A" THEN e.options.columns
    ELSE (e.options.columns * e.caps.fonts[value]) \div e.caps.fonts.A

\* The font command is added, then the columns and the font are set
FontSet(e, value, c) ==
    IF c.threw THEN Composed(e, c)
    ELSE [Composed(e, [c EXCEPT !.columns = FontColumns(e, value)])
            EXCEPT !.state.font = value]

font(e, value) ==
    IF e.error # "" THEN e
    ELSE IF IsEmbedded(e) THEN Throw(e, EmbeddedError)
    ELSE IF e.composer.cursor > 0
         THEN Throw(e, "Changing fonts is not supported in the middle of a line")
    ELSE IF value \notin {"A", "B"} \/ e.caps.fonts[value] = 0
         THEN error(e, "This font is not supported by this printer", "relaxed")
    ELSE FontSet(e, value, addAll(e.composer, LanguageFont(value), 0))

Alignments == {"left", "center", "right"}

align(e, value) ==
    IF e.error # "" THEN e
    ELSE IF value \notin Alignments THEN Throw(e, "Unknown alignment")
    ELSE Composed(e, setAlign(e.composer, value))

\* The height of a line: the largest height of its size items, 1 at least
LineHeight(items) ==
    LET heights == {items[k].height : k \in {j \in 1..Len(items) :
                        items[j].type = "style" /\ items[j].property = "size"}}
    IN  IF heights = {} THEN 1
        ELSE Max(1, CHOOSE h \in heights : \A g \in heights : h >= g)

\* The queue needs a flush unless its last line ends in a pulse or a cut
RequiresFlush(queue) ==
    ~(/\ Len(queue) > 0
      /\ Len(queue[Len(queue)]) > 0
      /\ queue[Len(queue)][Len(queue[Len(queue)])].type \in {"pulse", "cut"})

\* The lines of the queue, then the line fetched when it is not empty
AllLines(f) == IF Len(f.result) > 0 THEN Append(f.c.queue, f.result) ELSE f.c.queue

CommandLines(all) ==
    [k \in 1..Len(all) |-> [commands |-> all[k], height |-> LineHeight(all[k])]]

\* The lines handed out and the state reset, once the composer is fetched
Fetching(e, f) ==
    IF f.c.threw THEN [e |-> Composed(e, f.c), result |-> <<>>]
    ELSE [e |-> reset(Composed(e, f.c)), result |-> CommandLines(AllLines(f))]

\* commands(): the lines of the queue and of the composer, the state reset
commands(e) ==
    IF e.error # "" THEN [e |-> e, result |-> <<>>]
    ELSE Fetching(e, fetch(IF /\ RequiresFlush(e.composer.queue)
                              /\ e.options.autoFlush = "on"
                              /\ ~e.options.embedded
                           THEN addAll(e.composer, LanguageFlush(e.options.language), 0)
                           ELSE e.composer,
                           ForceFlush))

\* A column of a table; a margin left out is -1
TableColumn(w, a, marginLeft, marginRight, verticalAlign) ==
    [width |-> w, align |-> a, marginLeft |-> marginLeft, marginRight |-> marginRight,
     verticalAlign |-> verticalAlign]

\* The nested encoder of a cell or of a box, after the codepage and the
\* alignment have been set and the string contents added
columnEncoder(e, w, a, contents) ==
    encoderText(align(codepage(constructor([e.options EXCEPT !.width = w,
                                                             !.embedded = TRUE]),
                               e.codepage),
                      a),
                contents)

\* The cells of one row: the lines of the nested encoder of each
RowCells(e, columns, row) ==
    [c \in 1..Len(columns) |->
        commands(columnEncoder(e, columns[c].width, columns[c].align, row[c]))]

\* The error of the first cell that failed, "" when none did
FirstError(cells) ==
    IF \A c \in 1..Len(cells) : cells[c].e.error = "" THEN ""
    ELSE cells[CHOOSE c \in 1..Len(cells) :
                 /\ cells[c].e.error # ""
                 /\ \A d \in 1..(c - 1) : cells[d].e.error = ""].e.error

\* The number of lines of the tallest cell
MaxLines(cells) ==
    IF cells = <<>> THEN 0
    ELSE CHOOSE n \in {Len(cells[c].result) : c \in 1..Len(cells)} :
            \A c \in 1..Len(cells) : n >= Len(cells[c].result)

\* A cell padded with blank lines, above when it is aligned to the bottom
PadCell(column, lines, padding) ==
    IF column.verticalAlign = "bottom" THEN padding \o lines ELSE lines \o padding

RowPadded(columns, cells, maxLines) ==
    [error |-> FirstError(cells),
     maxLines |-> maxLines,
     lines |-> [c \in 1..Len(columns) |->
                  PadCell(columns[c], cells[c].result,
                          Repeat([commands |-> <<SpaceItem(columns[c].width)>>,
                                  height |-> 1],
                                 maxLines - Len(cells[c].result)))]]

RowOf(columns, cells) == RowPadded(columns, cells, MaxLines(cells))

\* The lines of the cells of one row, padded to the same height
RowLines(e, columns, row) == RowOf(columns, RowCells(e, columns, row))

\* A margin that is given is a space of its size
MarginSpace(c, margin) == IF margin >= 0 THEN space(c, margin) ELSE c

tableCell(c, column, cellLine) ==
    MarginSpace(addAll(MarginSpace(c, column.marginLeft), cellLine.commands, column.width),
                column.marginRight)

RECURSIVE tableCells(_, _, _, _, _)
tableCells(c, columns, lines, l, ci) ==
    IF ci > Len(columns) THEN c
    ELSE tableCells(tableCell(c, columns[ci], lines[ci][l]), columns, lines, l, ci + 1)

RECURSIVE tableLines(_, _, _, _, _)
tableLines(c, columns, lines, l, maxLines) ==
    IF l > maxLines THEN c
    ELSE tableLines(flush(tableCells(c, columns, lines, l, 1), NoOptions),
                    columns, lines, l + 1, maxLines)

\* One row: an error of a cell is the call's, else its lines are composed
tableRow(e, columns, rows) ==
    IF rows.error # "" THEN Throw(e, rows.error)
    ELSE Composed(e, tableLines(e.composer, columns, rows.lines, 1, rows.maxLines))

RECURSIVE tableRows(_, _, _, _)
tableRows(e, columns, data, r) ==
    IF r > Len(data) \/ e.error # "" THEN e
    ELSE tableRows(tableRow(e, columns, RowLines(e, columns, data[r])),
                   columns, data, r + 1)

\* table(columns, data): no test of the embedded flag
table(e, columns, data) ==
    IF e.error # "" THEN e
    ELSE tableRows(Composed(e, flush(e.composer, NoOptions)), columns, data, 1)

\* The characters of the border of a box, one character each, and their
\* codes in cp437
BoxElements == <<"tl", "tr", "bl", "br", "h", "v">>

\* The options of a box; a width of 0 is the width left out
BoxOptions(boxStyle, w, marginLeft, marginRight, paddingLeft, paddingRight, a) ==
    [style |-> boxStyle, width |-> w, marginLeft |-> marginLeft,
     marginRight |-> marginRight, paddingLeft |-> paddingLeft,
     paddingRight |-> paddingRight, align |-> a]

\* The width left for the contents of the box
BoxInner(o) ==
    o.width - (IF o.style = "none" THEN 0 ELSE 2) - o.paddingLeft - o.paddingRight

RECURSIVE textEach(_, _, _)
textEach(c, values, cp) ==
    IF values = <<>> THEN c ELSE textEach(text(c, Head(values), cp), Tail(values), cp)

\* The end of a border line; elements[4].repeat(width - 2) throws for a
\* negative count, after the left corner was added
BorderEnd(c, o) ==
    IF o.width - 2 < 0 THEN [c EXCEPT !.threw = TRUE]
    ELSE flush(space(c, o.marginRight), NoOptions)

\* The header or the footer of a box with a border
BoxBorder(c, o, leftElement, rightElement) ==
    BorderEnd(textEach(space(c, o.marginLeft),
                       IF o.width - 2 < 0 THEN <<<<BoxElements[leftElement]>>>>
                       ELSE <<<<BoxElements[leftElement]>>,
                              Repeat(BoxElements[5], o.width - 2),
                              <<BoxElements[rightElement]>>>>,
                       "cp437"),
              o)

BoxEdge(c, o, leftElement, rightElement) ==
    IF o.style # "none" THEN BoxBorder(c, o, leftElement, rightElement) ELSE c

BoxSide(c, o, lineHeight) ==
    IF o.style = "none" THEN c
    ELSE setHeight(text(setHeight(c, lineHeight), <<BoxElements[6]>>, "cp437"), 1)

\* One line of the contents between its margins, sides and paddings
boxLine(c, o, cellLine) ==
    space(BoxSide(space(addAll(space(BoxSide(space(c, o.marginLeft), o, cellLine.height),
                                     o.paddingLeft),
                               cellLine.commands, BoxInner(o)),
                        o.paddingRight),
                  o, cellLine.height),
          o.marginRight)

RECURSIVE boxLines(_, _, _, _)
boxLines(c, o, lines, i) ==
    IF i > Len(lines) THEN c
    ELSE boxLines(flush(boxLine(c, o, lines[i]), NoOptions), o, lines, i + 1)

\* The box composed around the lines of its nested encoder
Boxed(e, o, cell) ==
    IF o.width + o.marginLeft + o.marginRight > e.options.columns
    THEN Throw(e, "Box is too wide")
    ELSE IF cell.e.error # "" THEN Throw(e, cell.e.error)
    ELSE Composed(e, BoxEdge(boxLines(BoxEdge(flush(e.composer, NoOptions), o, 1, 2),
                                      o, cell.result, 1),
                             o, 3, 4))

boxAround(e, o, contents) ==
    Boxed(e, o, commands(columnEncoder(e, BoxInner(o), o.align, contents)))

\* box(options, contents): no test of the embedded flag
box(e, given, contents) ==
    IF e.error # "" THEN e
    ELSE boxAround(e, [given EXCEPT !.width = IF @ = 0 THEN e.options.columns ELSE @],
               contents)

\* The steps barcode, qrcode, pdf417 and image share: the buffer is flushed,
\* the alignment set when it is not left
AlignedTo(e, c, value) ==
    IF getAlign(c) # "left" THEN addAll(c, LanguageAlign(e.options.language, value), 0)
    ELSE c

BlockAligned(e, c) == AlignedTo(e, c, getAlign(c))

BeforeBlock(e) == BlockAligned(e, flush(e.composer, ForceFlush))

\* and after the items of the block the alignment is reset and the buffer
\* flushed
AfterBlock(e, c, items) ==
    flush(AlignedTo(e, addAll(c, items, 0), "left"), ForceFlush)

\* The block once the buffer is flushed: the driver may refuse the value
BlockOf(e, c, driver) ==
    IF c.threw THEN Composed(e, c)
    ELSE IF driver.threw THEN Throw(Composed(e, c), "not supported by language")
    ELSE Composed(e, AfterBlock(e, c, driver.items))

Block(e, driver) == BlockOf(e, BeforeBlock(e), driver)

\* A symbology given as a number is not looked up in the capabilities
IsNumber(symbology) == symbology = "75"

barcode(e, value, symbology) ==
    IF e.error # "" THEN e
    ELSE IF IsEmbedded(e) THEN Throw(e, EmbeddedError)
    ELSE IF ~e.caps.barcodes
         THEN error(e, "Barcodes are not supported by this printer", "relaxed")
    ELSE IF ~IsNumber(symbology) /\ symbology \notin e.caps.symbologies
         THEN error(e, "Symbology not supported by this printer", "relaxed")
    ELSE Block(e, LanguageBarcode(value, symbology))

\* qrcode(value, model): a model of 0 passes the test of the capabilities
qrcode(e, value, model) ==
    IF e.error # "" THEN e
    ELSE IF IsEmbedded(e) THEN Throw(e, EmbeddedError)
    ELSE IF ~e.caps.qrcode
         THEN error(e, "QR codes are not supported by this printer", "relaxed")
    ELSE IF model # 0 /\ model \notin e.caps.models
         THEN error(e, "QR code model is not supported by this printer", "relaxed")
    ELSE Block(e, LanguageQrcode(value, model))

pdf417(e, value) ==
    IF e.error # "" THEN e
    ELSE IF IsEmbedded(e) THEN Throw(e, EmbeddedError)
    ELSE IF ~e.caps.pdf417
         THEN IF e.caps.fallback # ""
              THEN barcode(e, value, e.caps.fallback)
              ELSE error(e, "PDF417 codes are not supported by this printer", "relaxed")
    ELSE Block(e, [threw |-> FALSE, items |-> LanguagePdf417(value)])

\* image() once the buffer is flushed and the driver has encoded the image,
\* or refused it
imageStarted(e, c, imageResult) ==
    IF c.threw
    THEN [e |-> Composed(e, c), suspended |-> FALSE, encodedImage |-> <<>>]
    ELSE IF imageResult.threw
    THEN [e |-> Throw(Composed(e, c), "ImageEncoder: validation"),
          suspended |-> FALSE, encodedImage |-> <<>>]
    ELSE [e |-> Composed(e, c), suspended |-> TRUE, encodedImage |-> imageResult.items]

\* image(input, width, height) up to its await: the encoder, whether the
\* call is suspended there, and the encoded image it resumes with
imageStart(e, input, w, h) ==
    IF e.error # "" THEN [e |-> e, suspended |-> FALSE, encodedImage |-> <<>>]
    ELSE IF IsEmbedded(e)
         THEN [e |-> Throw(e, EmbeddedError), suspended |-> FALSE, encodedImage |-> <<>>]
    ELSE imageStarted(e, BeforeBlock(e),
                      LanguageImage(e.options.language, input, w, h,
                                    e.options.imageMode, e.caps.supportsCompression))

\* image() from its await on
imageResume(e, encodedImage) ==
    IF e.error # "" THEN e ELSE Composed(e, AfterBlock(e, e.composer, encodedImage))

\* flush, add, flush: the items get a line of their own
QueuedAlone(c, items) ==
    flush(addAll(flush(c, ForceFlush), items, 0), ForceFlush)

cut(e, value) ==
    IF e.error # "" THEN e
    ELSE IF IsEmbedded(e) THEN Throw(e, EmbeddedError)
    ELSE Composed(e, QueuedAlone(flushTimes(e.composer, e.options.feedBeforeCut,
                                            ForceNewline),
                                 LanguageCut(e.options.language, value)))

pulse(e, device, on, off) ==
    IF e.error # "" THEN e
    ELSE IF IsEmbedded(e) THEN Throw(e, EmbeddedError)
    ELSE Composed(e, QueuedAlone(e.composer,
                                 LanguagePulse(e.options.language, device, on, off)))

encoderRaw(e, data) ==
    IF e.error # "" THEN e ELSE Composed(e, raw(e.composer, data))

\* CodepageEncoder.autoEncode for the characters of the model, which are
\* ASCII: one fragment in the first candidate
autoEncode(value, mapping) ==
    <<[codepage |-> FirstCandidate(mapping), bytes |-> EncodeChars(value)]>>

CodepageItem(id) == PayloadItem("codepage", "", LanguageCodepage(id))
EncodedText(bytes) == PayloadItem("text", "", bytes)

\* Items in front of the items of the rest of a loop
Prepended(items, rest) == [e |-> rest.e, items |-> items \o rest.items]

FragmentId(e, fragment) == codepageMappings(e.options.codepageMapping, fragment.codepage)

RECURSIVE encodeFragments(_, _)
encodeFragments(e, fragments) ==
    IF fragments = <<>> THEN [e |-> e, items |-> <<>>]
    ELSE Prepended(<<CodepageItem(FragmentId(e, Head(fragments))),
                     EncodedText(Head(fragments).bytes)>>,
                   encodeFragments([e EXCEPT !.state.codepage =
                                                 FragmentId(e, Head(fragments))],
                                   Tail(fragments)))

\* #encodeText
encodeText(e, value, cp) ==
    IF cp = "null" THEN [e |-> e, items |-> <<EncodedText(EncodeChars(value))>>]
    ELSE IF cp # "auto"
    THEN LET id == codepageMappings(e.options.codepageMapping, cp)
         IN  IF e.state.codepage # id
             THEN [e |-> [e EXCEPT !.state.codepage = id],
                   items |-> <<CodepageItem(id), EncodedText(EncodeChars(value))>>]
             ELSE [e |-> e, items |-> <<EncodedText(EncodeChars(value))>>]
    ELSE encodeFragments(e, autoEncode(value, e.options.codepageMapping))

\* #encodeStyle
encodeStyle(item) ==
    IF item.property = "size" THEN LanguageSize(item.width, item.height)
    ELSE LanguageStyle(item.property, item.on)

\* One item of a line: text is encoded, a style gets its payload, another
\* item is kept when it has a value or a payload
encodeItem(e, item) ==
    IF item.type = "text" THEN encodeText(e, item.text, item.codepage)
    ELSE IF item.type = "style"
         THEN [e |-> e,
               items |-> <<[item EXCEPT !.payload = encodeStyle(item),
                                        !.hasPayload = TRUE]>>]
    ELSE IF item.value # "" \/ item.hasPayload
         THEN [e |-> e, items |-> <<item>>]
    ELSE [e |-> e, items |-> <<>>]

ItemsAppended(acc, first) == [e |-> first.e, items |-> acc.items \o first.items]

\* The loop of encode over the items of one line
RECURSIVE encodeItems(_, _)
encodeItems(acc, items) ==
    IF items = <<>> THEN acc
    ELSE encodeItems(ItemsAppended(acc, encodeItem(acc.e, Head(items))), Tail(items))

LineAppended(acc, first) == [e |-> first.e, lines |-> Append(acc.lines, first.items)]

RECURSIVE encodeLines(_, _)
encodeLines(acc, lines) ==
    IF lines = <<>> THEN acc
    ELSE encodeLines(LineAppended(acc, encodeItems([e |-> acc.e, items |-> <<>>],
                                                   Head(lines).commands)),
                     Tail(lines))

NewlineBytes(e) ==
    IF e.options.newline = "\n\r" THEN <<10, 13>>
    ELSE IF e.options.newline = "\n" THEN <<10>>
    ELSE <<>>

LinePayload(items) ==
    Flatten([k \in 1..Len(items) |-> IF items[k].hasPayload THEN items[k].payload ELSE <<>>])

\* The bytes of the lines, a newline after each
LineBytes(e, lines) ==
    Flatten([k \in 1..Len(lines) |-> LinePayload(lines[k]) \o NewlineBytes(e)])

\* The last newline goes when the last item of all is a pulse
AfterPulse(all) == Len(all) > 0 /\ all[Len(all)].type = "pulse"

WithoutLastNewline(e, all, bytes) ==
    IF AfterPulse(all) THEN SubSeq(bytes, 1, Len(bytes) - Len(NewlineBytes(e))) ELSE bytes

EncodeResult(e, enc) ==
    [e |-> enc.e,
     lines |-> enc.lines,
     bytes |-> WithoutLastNewline(e, Flatten(enc.lines), LineBytes(e, enc.lines))]

EncodeLinesOf(e, cmd) ==
    EncodeResult(e, encodeLines([e |-> cmd.e, lines |-> <<>>], cmd.result))

\* encode(): the encoder after the call, the lines of format 'lines' and
\* the bytes of format 'array', without the last newline after a pulse
encode(e) == EncodeLinesOf(e, commands(e))

(***************************************************************************)
(* The caller.  A call is a record [method, value, name, number]: value is *)
(* the text of the call, name its string argument and number its numeric   *)
(* one.  The encoder variable holds the encoder between calls, call the    *)
(* call made last with its outcome, script the calls of the document in    *)
(* progress, pending the image() call suspended at its await.              *)
(***************************************************************************)
Call(method, value, name, number) ==
    [method |-> method, value |-> value, name |-> name, number |-> number]

\* The tables and boxes of the model
TwoColumns ==
    <<TableColumn(4, "left", -1, -1, "top"), TableColumn(4, "right", 1, -1, "top")>>
TableData(value) == <<<<value, <<"b">>>>>>
BoxOf(boxStyle) == BoxOptions(boxStyle, 6, 1, 0, 0, 0, "left")

\* The images of the model: all black, of the width and the height called for
BlackImage(w, h) == MakeImage([y \in 1..h |-> "black"], w)

\* image() awaited: the call resumes as soon as it is suspended
Awaited(started) ==
    IF started.suspended THEN imageResume(started.e, started.encodedImage)
    ELSE started.e

\* One call on the encoder; image() is awaited here
Apply(e, c) ==
    CASE c.method = "initialize" -> initialize(e)
      [] c.method = "codepage" -> codepage(e, c.name)
      [] c.method = "text" -> encoderText(e, c.value)
      [] c.method = "newline" -> newline(e, c.number)
      [] c.method = "bold" -> toggle(e, "bold")
      [] c.method = "width" -> width(e, c.number)
      [] c.method = "font" -> font(e, c.name)
      [] c.method = "align" -> align(e, c.name)
      [] c.method = "raw" -> encoderRaw(e, EncodeChars(c.value))
      [] c.method = "table" -> table(e, TwoColumns, TableData(c.value))
      [] c.method = "box" -> box(e, BoxOf(c.name), c.value)
      [] c.method = "barcode" -> barcode(e, c.value, c.name)
      [] c.method = "qrcode" -> qrcode(e, c.value, c.number)
      [] c.method = "pdf417" -> pdf417(e, c.value)
      [] c.method = "cut" -> cut(e, c.name)
      [] c.method = "pulse" -> pulse(e, 0, c.number, 500)
      [] c.method = "image" ->
           Awaited(imageStart(e, BlackImage(c.number, 1), c.number, 1))

RECURSIVE Replay(_, _)
Replay(e, calls_) ==
    IF calls_ = <<>> THEN e
    ELSE Replay([Apply(e, Head(calls_)) EXCEPT !.error = ""], Tail(calls_))

NoCall == [method |-> "", value |-> <<>>, name |-> "", number |-> 0, error |-> "",
           before |-> NewComposer(FALSE, 0)]

Outcome(c, before, after) ==
    [method |-> c.method, value |-> c.value, name |-> c.name, number |-> c.number,
     error |-> after.error, before |-> before.composer]

NoImage == [suspended |-> FALSE, encodedImage |-> <<>>]
NoOutput == [done |-> FALSE, lines |-> <<>>, bytes |-> <<>>, script |-> <<>>, fresh |-> <<>>]
NoStream == [pc |-> "idle", chunkSize |-> 0, callback |-> FALSE, fullData |-> <<>>,
             chunks |-> <<>>, yielded |-> <<>>, sent |-> <<>>, settled |-> 0,
             threw |-> FALSE]

\* No variable of the encoder and its caller changes
FacadeIdle ==
    /\ encoder = constructor(NoOptionsGiven)
    /\ call = NoCall
    /\ calls = 0
    /\ pending = NoImage
    /\ script = <<>>
    /\ encoded = NoOutput
    /\ stream = NoStream

FacadeUnchanged == UNCHANGED <<encoder, call, calls, pending, script, encoded, stream>>
CodecUnchanged == UNCHANGED <<rle, strip, pool, imaging, wrapper, heap>>

\* The encoder is in use: no iterator runs on it and no exception of the
\* composer has left a line half built
InUse == stream.pc = "idle" /\ ~encoder.composer.threw

\* A call returns or throws: the encoder is as the call left it and the
\* caller holds the outcome
Returned(c, after) ==
    /\ encoder' = [after EXCEPT !.error = ""]
    /\ call' = Outcome(c, encoder, after)

\* A synchronous method is called and returns or throws
Invoke(c, after) ==
    /\ InUse
    /\ Returned(c, after)
    /\ calls' = calls + 1
    /\ script' = Append(script, c)
    /\ UNCHANGED <<pending, encoded, stream>>

Texts == {<<"a">>, <<"a", " ">>, <<"a", "\n", "a">>, <<"b">>}
CodepageNames == {"cp437", "cp858", "auto"}
SymbologyNames == {"code39", "gs1-128"}
QrModels == {1, 2}
ImageSizes == {8, 12}

Initialize == Invoke(Call("initialize", <<>>, "", 0), initialize(encoder))
Codepage ==
    \E name \in CodepageNames :
        Invoke(Call("codepage", <<>>, name, 0), codepage(encoder, name))
Text == \E value \in Texts : Invoke(Call("text", value, "", 0), encoderText(encoder, value))
NewlineCall == Invoke(Call("newline", <<>>, "", 0), newline(encoder, 0))
Bold == Invoke(Call("bold", <<>>, "", 0), toggle(encoder, "bold"))
Width == \E n \in {1, 2} : Invoke(Call("width", <<>>, "", n), width(encoder, n))
Height == \E n \in {1, 2} : Invoke(Call("height", <<>>, "", n), height(encoder, n))
Toggle ==
    \E property \in {"italic", "underline", "invert"} :
        Invoke(Call(property, <<>>, "", 0), toggle(encoder, property))
Font == \E name \in {"A", "B"} : Invoke(Call("font", <<>>, name, 0), font(encoder, name))
Align ==
    \E name \in Alignments : Invoke(Call("align", <<>>, name, 0), align(encoder, name))
Raw == Invoke(Call("raw", <<"1">>, "", 0), encoderRaw(encoder, EncodeChars(<<"1">>)))
Table ==
    \E value \in {<<"a">>, <<"a", "b", " ", "a", "b", "a">>} :
        Invoke(Call("table", value, "", 0), table(encoder, TwoColumns, TableData(value)))
Box ==
    \E name \in {"single", "none"} :
        Invoke(Call("box", <<"a">>, name, 0), box(encoder, BoxOf(name), <<"a">>))
Barcode ==
    \E name \in SymbologyNames :
        Invoke(Call("barcode", <<"1">>, name, 0), barcode(encoder, <<"1">>, name))
Qrcode ==
    \E model \in QrModels :
        Invoke(Call("qrcode", <<"1">>, "", model), qrcode(encoder, <<"1">>, model))
Pdf417 == Invoke(Call("pdf417", <<"1">>, "", 0), pdf417(encoder, <<"1">>))
Cut == Invoke(Call("cut", <<>>, "full", 0), cut(encoder, "full"))
Pulse ==
    \E on \in {100, 101} : Invoke(Call("pulse", <<>>, "", on), pulse(encoder, 0, on, 500))

\* pulse() with each of its arguments given
PulseTimes == {1, 510, 511, 512, 1000, 1001}
PulseOffTimes == {500, 1200}
PulseTimed ==
    \E device \in {0, 1}, on \in PulseTimes, off \in PulseOffTimes :
        Invoke(Call("pulse", <<device, on, off>>, "", on), pulse(encoder, device, on, off))

\* image() has run to its await, or has thrown before it
ImageStarted(c, started) ==
    /\ Returned(c, started.e)
    /\ pending' = [suspended |-> started.suspended, encodedImage |-> started.encodedImage]
    /\ script' = Append(script, c)

\* image() is called and runs to its await, or throws before it
ImageStart ==
    /\ InUse
    /\ ~pending.suspended
    /\ \E w \in ImageSizes :
         ImageStarted(Call("image", <<>>, "", w), imageStart(encoder, BlackImage(w, 1), w, 1))
    /\ calls' = calls + 1
    /\ UNCHANGED <<encoded, stream>>

\* The suspended image() resumes after its await and returns
ImageResume ==
    /\ InUse
    /\ pending.suspended
    /\ Returned(Call("image-resumed", <<>>, "", 0),
                imageResume(encoder, pending.encodedImage))
    /\ pending' = NoImage
    /\ UNCHANGED <<calls, script, encoded, stream>>

CommandsReturned(cmd) ==
    /\ Returned(Call("commands", <<>>, "", 0), cmd.e)
    /\ encoded' = [NoOutput EXCEPT !.done = TRUE,
                                  !.lines = [k \in 1..Len(cmd.result) |->
                                               cmd.result[k].commands],
                                  !.script = script]

\* commands() is called: the lines go to the caller
Commands ==
    /\ InUse
    /\ CommandsReturned(commands(encoder))
    /\ calls' = calls + 1
    /\ script' = <<>>
    /\ UNCHANGED <<pending, stream>>

EncodeReturned(c, enc, fresh) ==
    /\ Returned(c, enc.e)
    /\ encoded' = [done |-> TRUE, lines |-> enc.lines, bytes |-> enc.bytes,
                  script |-> script, fresh |-> fresh]

\* encode() is called: the bytes go to the caller, with the bytes the same
\* calls give on an encoder just constructed
Encode ==
    /\ InUse
    /\ EncodeReturned(Call("encode", <<>>, "", 0), encode(encoder),
                      encode(Replay(constructor(encoder.options), script)).bytes)
    /\ calls' = calls + 1
    /\ script' = <<>>
    /\ UNCHANGED <<pending, stream>>

DEFAULT_CHUNK_SIZE == 512

\* if (fullData.length === 0) return; else the chunks are generated
Generated(bytes, n) ==
    IF Len(bytes) = 0 THEN [threw |-> FALSE, chunks |-> <<>>]
    ELSE generateChunks(bytes, n)

IteratorStarted(n, onChunkSent, bytes, generated) ==
    stream' = [pc |-> IF generated.threw \/ generated.chunks = <<>>
                      THEN "done" ELSE "yield",
               chunkSize |-> n, callback |-> onChunkSent, fullData |-> bytes,
               chunks |-> generated.chunks, yielded |-> <<>>, sent |-> <<>>,
               settled |-> 0, threw |-> generated.threw]

IteratorEncoded(n, onChunkSent, enc, fresh) ==
    /\ EncodeReturned(Call("encodeAsyncIterator", <<>>, "", n), enc, fresh)
    /\ IteratorStarted(n, onChunkSent, enc.bytes, Generated(enc.bytes, n))

\* The chunk sizes a caller asks for: none, small ones and the default
MaxChunkSize == 3
ChunkSizes == 0..MaxChunkSize \cup {DEFAULT_CHUNK_SIZE}

\* encodeAsyncIterator({chunkSize, onChunkSent}) runs to its first yield,
\* its return or its exception: the document is encoded and the chunks are
\* laid out
IteratorStart ==
    /\ InUse
    /\ \E n \in ChunkSizes, onChunkSent \in BOOLEAN :
         IteratorEncoded(n, onChunkSent, encode(encoder),
                         encode(Replay(constructor(encoder.options), script)).bytes)
    /\ calls' = calls + 1
    /\ script' = <<>>
    /\ UNCHANGED pending

\* The iterator yields its next chunk: the consumer holds it
IteratorYield ==
    /\ stream.pc = "yield"
    /\ stream' = [stream EXCEPT !.yielded = Append(@, stream.chunks[Len(@) + 1].chunk),
                                !.pc = "delivered"]
    /\ UNCHANGED <<encoder, call, calls, pending, script, encoded>>

\* The callback is called with the byte offset only
BytesSentBefore(chunkInfo) == chunkInfo.byteOffset

\* bytesSent: chunkInfo.byteOffset + chunkInfo.chunk.length
BytesSent(chunkInfo) == chunkInfo.byteOffset + Len(chunkInfo.chunk)

callbackInfo(chunkInfo) ==
    [index |-> chunkInfo.index, total |-> chunkInfo.total,
     bytes |-> Len(chunkInfo.chunk), bytesSent |-> BytesSent(chunkInfo),
     totalBytes |-> chunkInfo.totalBytes, isLast |-> chunkInfo.isLast]

\* The next iteration of the loop over the chunks, or the return
LoopOn(more) == IF more THEN "yield" ELSE "done"

\* The promise of the callback is not waited for
CallbackNotAwaited(more) == LoopOn(more)

\* await Promise.resolve(onChunkSent(callbackInfo))
CallbackAwaited(more) == "awaiting"

\* The consumer asks for more: the iterator resumes after its yield, calls
\* onChunkSent for the chunk it yielded if there is a callback, and waits
\* for the promise of the call; without a callback the loop goes on
IteratorNext ==
    /\ stream.pc = "delivered"
    /\ stream' =
         IF stream.callback
         THEN [stream EXCEPT
                 !.sent = Append(@, callbackInfo(stream.chunks[Len(stream.yielded)])),
                 !.pc = CallbackAwaited(Len(stream.yielded) < Len(stream.chunks))]
         ELSE [stream EXCEPT !.pc = LoopOn(Len(stream.yielded) < Len(stream.chunks))]
    /\ UNCHANGED <<encoder, call, calls, pending, script, encoded>>

\* The promise of the callback settles: the loop goes on or the iterator
\* returns
IteratorSettled ==
    /\ stream.pc = "awaiting"
    /\ stream' = [stream EXCEPT !.settled = @ + 1,
                                !.pc = LoopOn(Len(stream.yielded) < Len(stream.chunks))]
    /\ UNCHANGED <<encoder, call, calls, pending, script, encoded>>

(***************************************************************************)
(* The image paths of the dialect drivers.  image() of the facade hands    *)
(* the image, the size, the image mode of the options and the compression  *)
(* flag of the printer to the driver, which takes its synchronous or its   *)
(* asynchronous path by the size.  A job is one such call; both paths are  *)
(* run on it, the asynchronous one from yield to yield.                    *)
(***************************************************************************)
\* image() of the drivers: the sizes that take the asynchronous path
ShouldUseAsync(language, w, h) ==
    \/ w * h > 250000
    \/ w > 800
    \/ language # "esc-pos" /\ w * CeilDiv(h, ColumnStripHeight) * 3 > 500000

\* ImageEncoder.buildLineSpacingCommand
buildLineSpacingCommand(dots) ==
    IF dots = 0 THEN <<27, 50>> ELSE <<27, 51, dots % 256>>

ColumnCommand(language, stripData, w) ==
    IF language = "esc-pos" THEN buildColumnCommand(stripData, w)
    ELSE buildStarColumnCommand(stripData, w)

\* The items made of the commands of the column loop: for ESC/POS the
\* first and the last command are the line spacing
ColumnItemsOf(language, cmds, w) ==
    [k \in 1..Len(cmds) |->
        IF language = "esc-pos" /\ k = 1
        THEN PayloadItem("line-spacing", "24 dots", cmds[k])
        ELSE IF language = "esc-pos" /\ k = Len(cmds)
        THEN PayloadItem("line-spacing", "default", cmds[k])
        ELSE ImageItem("column", w, 24, cmds[k])]

\* The asynchronous path at a yield or at its end
AsyncRun(pc, s, x, stripData, cmds, strips, i, items, threw) ==
    [pc |-> pc, s |-> s, x |-> x, strip |-> stripData, commands |-> cmds,
     strips |-> strips, i |-> i, items |-> items, threw |-> threw]

NoAsyncRun == AsyncRun("idle", 0, 0, <<>>, <<>>, <<>>, 0, <<>>, FALSE)

\* The strip loop yields after each fourth strip (the column loops after
\* each hundredth column)
StripYield(i) == i % 4 = 0 /\ i > 0

\* The first column from x on after which the column loop yields
NextYieldColumn(x) == IF x = 0 THEN 100 ELSE CeilDiv(x, 100) * 100

\* The bytes of the columns x..last of column strip s
ColumnsBytes(job, s, x, last) ==
    [k \in 1..(3 * (last - x + 1)) |->
        ColumnByte(job.image, x + (k - 1) \div 3,
                   s * ColumnStripHeight + ((k - 1) % 3) * 8, job.width, job.height)]

\* The column loop of processImageAsync and of the StarPRNT driver from
\* column x of strip s on, to its next yield or to its end
RECURSIVE RunColumns(_, _, _, _, _)
RunColumns(job, s, x, stripData, cmds) ==
    IF ~(s < CeilDiv(job.height, ColumnStripHeight))
    THEN AsyncRun("done", s, x, <<>>, cmds, <<>>, 0,
                  ColumnItemsOf(job.language,
                                IF job.language = "esc-pos"
                                THEN Append(cmds, buildLineSpacingCommand(0))
                                ELSE cmds,
                                job.width),
                  FALSE)
    ELSE IF NextYieldColumn(x) < job.width
    THEN AsyncRun("yielded", s, NextYieldColumn(x) + 1,
                  stripData \o ColumnsBytes(job, s, x, NextYieldColumn(x)),
                  cmds, <<>>, 0, <<>>, FALSE)
    ELSE RunColumns(job, s + 1, 0, <<>>,
                    Append(cmds, ColumnCommand(job.language,
                                               stripData
                                                 \o ColumnsBytes(job, s, x, job.width - 1),
                                               job.width)))

\* The strip loop of LanguageEscPos._processImageAsync from strip i on, to
\* its next yield or to its end
RECURSIVE RunStrips(_, _, _, _)
RunStrips(job, strips, i, items) ==
    IF ~(i < Len(strips))
    THEN AsyncRun("done", 0, 0, <<>>, <<>>, <<>>, i, items, FALSE)
    ELSE IF StripYield(i)
    THEN AsyncRun("yielded", 0, 0, <<>>, <<>>, strips, i + 1,
                  Append(items, RasterItem(strips[i + 1], job.width, job.useCompression)),
                  FALSE)
    ELSE RunStrips(job, strips, i + 1,
                   Append(items, RasterItem(strips[i + 1], job.width, job.useCompression)))

AsyncThrew == AsyncRun("done", 0, 0, <<>>, <<>>, <<>>, 0, <<>>, TRUE)

RasterAsyncStarted(job, r) ==
    IF r.threw THEN AsyncThrew ELSE RunStrips(job, r.strips, 0, <<>>)

\* _processImageAsync of the two drivers up to its first yield or its end:
\* the raster strips are laid out before the loop, processImageAsync
\* validates the image, the StarPRNT loop validates nothing
AsyncStarted(job) ==
    IF job.language = "esc-pos" /\ job.mode = "raster"
    THEN RasterAsyncStarted(job, pixelsToRasterStrips(job.image, job.width, job.height,
                                                      IMAGE_STRIP_HEIGHT))
    ELSE IF job.language = "esc-pos"
    THEN IF ~ValidImage(job.image) THEN AsyncThrew
         ELSE RunColumns(job, 0, 0, <<>>, <<buildLineSpacingCommand(36)>>)
    ELSE RunColumns(job, 0, 0, <<>>, <<>>)

\* ... and from a yield on
AsyncResumed(job, run) ==
    IF job.language = "esc-pos" /\ job.mode = "raster"
    THEN RunStrips(job, run.strips, run.i, run.items)
    ELSE RunColumns(job, run.s, run.x, run.strip, run.commands)

\* The call of the facade into the driver: the language and the image mode
\* of the options, the compression flag of the printer
Job(e, image, w, h) ==
    [printerModel |-> e.options.printerModel,
     language |-> e.options.language, mode |-> e.options.imageMode,
     useCompression |-> e.caps.supportsCompression,
     image |-> image, width |-> w, height |-> h,
     async |-> ShouldUseAsync(e.options.language, w, h)]

\* The encoders, the images and the sizes of the jobs.  An image is read
\* as black where its data end, so a small image serves any size.
ImagingOptions ==
    {[NoOptionsGiven EXCEPT !.language = language, !.imageMode = imageMode,
                            !.printerModel = printerModel] :
        language \in {"esc-pos", "star-prnt"}, imageMode \in {"column", "raster"},
        printerModel \in {"", "hp-a779"}}

MaxSourceHeight == 2
ShortImage == [data |-> <<>>, width |-> 8, height |-> 1]
SourceImages ==
    {MakeImage(rows, 8) : rows \in UNION {[1..h -> RowPatterns] : h \in 1..MaxSourceHeight}}
        \cup {ShortImage}
TargetSizes == {<<8, 1>>, <<8, 3>>, <<16, 2>>, <<104, 25>>}

\* The images of the strip examples on a printer without compression, and
\* an image of five strips
StripExample == <<576, 1000>>
ReadmeExample == <<576, 500>>
FiveStrips == <<8, 2049>>
ExampleJobs ==
    {<<given, dims>> \in ImagingOptions \X {StripExample, ReadmeExample, FiveStrips} :
        /\ given.language = "esc-pos"
        /\ given.imageMode = "raster"
        /\ dims \in {StripExample, ReadmeExample} => given.printerModel = ""}

NoSyncRun == [done |-> FALSE, threw |-> FALSE, items |-> <<>>]

ImagingIdle ==
    [job |-> Job(constructor(NoOptionsGiven), ShortImage, 0, 0),
     sync |-> [NoSyncRun EXCEPT !.done = TRUE], async |-> AsyncThrew]

ImagingInit ==
    imaging \in
        {[job |-> Job(constructor(given), image, dims[1], dims[2]),
          sync |-> NoSyncRun, async |-> NoAsyncRun] :
            given \in ImagingOptions, image \in SourceImages, dims \in TargetSizes}
        \cup
        {[job |-> Job(constructor(ex[1]), MakeImage(<<"white">>, 8), ex[2][1], ex[2][2]),
          sync |-> NoSyncRun, async |-> NoAsyncRun] : ex \in ExampleJobs}

SyncRun(result) == [done |-> TRUE, threw |-> result.threw, items |-> result.items]

\* _processImageSync runs on the job
ImagingSync ==
    /\ ~imaging.sync.done
    /\ imaging' = [imaging EXCEPT !.sync =
                     SyncRun(LanguageImage(imaging.job.language, imaging.job.image,
                                           imaging.job.width, imaging.job.height,
                                           imaging.job.mode, imaging.job.useCompression))]

\* _processImageAsync runs on the job to its first yield or to its end
ImagingAsyncStart ==
    /\ imaging.async.pc = "idle"
    /\ imaging' = [imaging EXCEPT !.async = AsyncStarted(imaging.job)]

\* ... and resumes after a yield
ImagingAsyncResume ==
    /\ imaging.async.pc = "yielded"
    /\ imaging' = [imaging EXCEPT !.async = AsyncResumed(imaging.job, imaging.async)]

(***************************************************************************)
(* The static pool shared by the image operations.  A buffer is an object: *)
(* it has an identity, given when it is allocated, and a length.  #pools   *)
(* maps a length to the buffers pushed under it.  A task is one call of an *)
(* image operation, run to its end or suspended at an await; held lists    *)
(* the buffers it acquired and did not release.                            *)
(***************************************************************************)
\* The callers that can have an operation under way at the same time
Callers == {1, 2}
MaxOperations == 3

\* this.#pools.get(poolSize), an absent bucket read as empty
Bucket(pools, length) == IF length \in DOMAIN pools THEN pools[length] ELSE <<>>

\* this.#pools.set(poolSize, pool) and the pushes and pops on the bucket
WithBucket(pools, length, bucket) ==
    [k \in DOMAIN pools \cup {length} |-> IF k = length THEN bucket ELSE pools[k]]

\* new Uint8Array(length): a buffer no one has seen before
Allocated(h, t, length) ==
    [h EXCEPT !.made = @ + 1,
              !.tasks[t].held = Append(@, [id |-> h.made + 1, length |-> length])]

\* The bucket keeps the buffer it hands out
AcquireUnpopped(h, t, bytes) ==
    IF bytes > maxBufferSize THEN Allocated(h, t, bytes)
    ELSE IF Len(Bucket(h.pools, nextPowerOf2(bytes))) > 0
         THEN [h EXCEPT !.tasks[t].held =
                 Append(@, Bucket(h.pools, nextPowerOf2(bytes))
                             [Len(Bucket(h.pools, nextPowerOf2(bytes)))])]
    ELSE Allocated(h, t, nextPowerOf2(bytes))

\* acquire(size) called by task t: the buffer is appended to what t holds
AcquireBuffer(h, t, bytes) ==
    IF bytes > maxBufferSize THEN Allocated(h, t, bytes)
    ELSE IF Len(Bucket(h.pools, nextPowerOf2(bytes))) > 0
         THEN [h EXCEPT
                 !.pools = WithBucket(h.pools, nextPowerOf2(bytes),
                             SubSeq(Bucket(h.pools, nextPowerOf2(bytes)), 1,
                                    Len(Bucket(h.pools, nextPowerOf2(bytes))) - 1)),
                 !.tasks[t].held =
                    Append(@, Bucket(h.pools, nextPowerOf2(bytes))
                                [Len(Bucket(h.pools, nextPowerOf2(bytes)))])]
    ELSE Allocated(h, t, nextPowerOf2(bytes))

\* The buckets after release(buffer)
Pushed(pools, buffer) ==
    IF buffer.length > maxBufferSize THEN pools
    ELSE IF Len(Bucket(pools, buffer.length)) < maxPoolSize
         THEN WithBucket(pools, buffer.length, Append(Bucket(pools, buffer.length), buffer))
    ELSE pools

\* release(buffer) called by task t on the k-th buffer it holds
ReleaseBuffer(h, t, k) ==
    [h EXCEPT !.pools = Pushed(h.pools, h.tasks[t].held[k]),
              !.tasks[t].held = SubSeq(@, 1, k - 1) \o SubSeq(@, k + 1, Len(@))]

\* compressRLE on data of the given length: the scratch buffer is acquired
\* and, whichever way the function returns, released
CompressScratch(h, t, length) ==
    IF length = 0 THEN h
    ELSE ReleaseBuffer(AcquireBuffer(h, t, 2 * length), t,
                       Len(AcquireBuffer(h, t, 2 * length).tasks[t].held))

\* buildRasterCommand: the pool is touched by compressRLE only
RasterCommandBuilt(h, t, length, useCompression) ==
    IF useCompression THEN CompressScratch(h, t, length) ELSE h

\* stripBytes of strip s of pixelsToRasterStrips
StripBytes(job, s) ==
    (job.width \div 8) * Min(IMAGE_STRIP_HEIGHT, job.height - s * IMAGE_STRIP_HEIGHT)

\* The acquire of each strip from s on, in pixelsToRasterStrips
RECURSIVE RasterStripsAcquired(_, _, _, _)
RasterStripsAcquired(h, t, job, s) ==
    IF s >= CeilDiv(job.height, IMAGE_STRIP_HEIGHT) THEN h
    ELSE RasterStripsAcquired(AcquireBuffer(h, t, StripBytes(job, s)), t, job, s + 1)

\* The acquire of each strip from s on, in pixelsToColumns
RECURSIVE ColumnStripsAcquired(_, _, _, _)
ColumnStripsAcquired(h, t, job, s) ==
    IF s >= CeilDiv(job.height, 24) THEN h
    ELSE ColumnStripsAcquired(AcquireBuffer(h, t, job.width * 3), t, job, s + 1)

\* _processImageSync, raster: a command for each strip from s on
RECURSIVE SyncStripsFramed(_, _, _, _)
SyncStripsFramed(h, t, job, s) ==
    IF s >= CeilDiv(job.height, IMAGE_STRIP_HEIGHT)
    THEN [h EXCEPT !.tasks[t].pc = "done"]
    ELSE SyncStripsFramed(RasterCommandBuilt(h, t, StripBytes(job, s), job.useCompression),
                          t, job, s + 1)

\* _processImageAsync, raster: a command for each strip from i on, up to the
\* await after every fourth strip
RECURSIVE AsyncStripsFramed(_, _, _, _)
AsyncStripsFramed(h, t, job, i) ==
    IF i >= CeilDiv(job.height, IMAGE_STRIP_HEIGHT)
    THEN [h EXCEPT !.tasks[t].pc = "done"]
    ELSE IF i % 4 = 0 /\ i > 0
         THEN [RasterCommandBuilt(h, t, StripBytes(job, i), job.useCompression)
                 EXCEPT !.tasks[t].pc = "yielded", !.tasks[t].at = i + 1]
    ELSE AsyncStripsFramed(RasterCommandBuilt(h, t, StripBytes(job, i), job.useCompression),
                           t, job, i + 1)

\* ImageEncoder.processImageAsync, raster: the rows from processedRows on,
\* up to the await after every fiftieth row; after the last row the command
\* is built and allData, the first buffer the task holds, is released
RowsProcessed(h, t, job, processedRows) ==
    IF processedRows + 50 <= job.height
    THEN [h EXCEPT !.tasks[t].pc = "yielded", !.tasks[t].at = processedRows + 50]
    ELSE [ReleaseBuffer(RasterCommandBuilt(h, t, (job.width \div 8) * job.height,
                                           job.useCompression), t, 1)
            EXCEPT !.tasks[t].pc = "done"]

\* The call of an image operation, up to its first await or its end
Called(h, t, job) ==
    IF job.kind = "sync raster"
    THEN SyncStripsFramed(RasterStripsAcquired(h, t, job, 0), t, job, 0)
    ELSE IF job.kind = "sync column"
    THEN [ColumnStripsAcquired(h, t, job, 0) EXCEPT !.tasks[t].pc = "done"]
    ELSE IF job.kind = "async raster"
    THEN AsyncStripsFramed(RasterStripsAcquired(h, t, job, 0), t, job, 0)
    ELSE RowsProcessed(AcquireBuffer(h, t, (job.width \div 8) * job.height), t, job, 0)

\* The continuation after an await
Resumed(h, t) ==
    IF h.tasks[t].job.kind = "async raster"
    THEN AsyncStripsFramed(h, t, h.tasks[t].job, h.tasks[t].at)
    ELSE RowsProcessed(h, t, h.tasks[t].job, h.tasks[t].at)

\* The operations: valid images whose pixels do not matter to the pool.
\* 8 x 600 and 8 x 100 meet in the bucket of 128 bytes; 128 x 2049 is large
\* enough for image() to take the asynchronous path and has a fifth strip;
\* 335552 x 101 needs a buffer larger than the pool keeps.
HeapJob(kind, w, h, useCompression) ==
    [kind |-> kind, width |-> w, height |-> h, useCompression |-> useCompression]

HeapJobs ==
    {HeapJob("sync raster", 8, 600, c) : c \in BOOLEAN}
    \cup {HeapJob("sync column", 8, 25, FALSE)}
    \cup {HeapJob("async raster", 128, 2049, TRUE)}
    \cup {HeapJob("processImageAsync", 8, 100, c) : c \in BOOLEAN}
    \cup {HeapJob("processImageAsync", 335552, 101, FALSE)}

NoTask == [pc |-> "idle", job |-> HeapJob("none", 0, 0, FALSE), at |-> 0, held |-> <<>>]

HeapIdle ==
    [pools |-> <<>>, made |-> 0, started |-> 0, kept |-> <<>>,
     tasks |-> [t \in Callers |-> NoTask]]

HeapInit == heap = HeapIdle

\* A caller starts an operation; what an earlier operation of the same
\* caller still held stays with the caller
HeapCall ==
    \E t \in Callers, job \in HeapJobs :
        /\ heap.tasks[t].pc \in {"idle", "done"}
        /\ heap.started < MaxOperations
        /\ heap' = Called([heap EXCEPT !.started = @ + 1,
                                       !.kept = @ \o heap.tasks[t].held,
                                       !.tasks[t] = [NoTask EXCEPT !.job = job]],
                          t, job)

\* The event loop resumes a suspended operation
HeapResume ==
    \E t \in Callers :
        /\ heap.tasks[t].pc = "yielded"
        /\ heap' = Resumed(heap, t)

\* ImageEncoder.releasePool()
HeapReleasePool ==
    /\ heap.pools # <<>>
    /\ heap' = [heap EXCEPT !.pools = <<>>]

(***************************************************************************)
(* Specifications                                                          *)
(***************************************************************************)
SpecRLEInit ==
    /\ RleInit
    /\ strip = StripIdle /\ pool = PoolIdle /\ imaging = ImagingIdle
    /\ wrapper = WrapIdle /\ heap = HeapIdle
    /\ FacadeIdle
SpecRLENext ==
    /\ RleCompress \/ RleDecompress \/ RleKeep
    /\ UNCHANGED <<strip, pool, imaging, wrapper, heap>>
    /\ FacadeUnchanged
SpecRLE == SpecRLEInit /\ [][SpecRLENext]_vars

SpecStripsInit ==
    /\ StripInit
    /\ rle = RleIdle /\ pool = PoolIdle /\ imaging = ImagingIdle
    /\ wrapper = WrapIdle /\ heap = HeapIdle
    /\ FacadeIdle
SpecStripsNext ==
    /\ StripEncode \/ StripRaster
    /\ UNCHANGED <<rle, pool, imaging, wrapper, heap>>
    /\ FacadeUnchanged

\* The memory pool: a client that acquires, releases and clears
SpecPoolInit ==
    /\ PoolInit
    /\ rle = RleIdle /\ strip = StripIdle /\ imaging = ImagingIdle
    /\ wrapper = WrapIdle /\ heap = HeapIdle
    /\ FacadeIdle
SpecPoolNext ==
    /\ PoolAcquire \/ PoolRelease \/ PoolClear
    /\ UNCHANGED <<rle, strip, imaging, wrapper, heap>>
    /\ FacadeUnchanged

\* Images: the call of image() into the driver, for encoders of both
\* dialects, both image modes and printers with and without compression;
\* the synchronous and the asynchronous path are both run on each image
SpecImagingInit ==
    /\ ImagingInit
    /\ rle = RleIdle /\ strip = StripIdle /\ pool = PoolIdle
    /\ wrapper = WrapIdle /\ heap = HeapIdle
    /\ FacadeIdle
SpecImagingNext ==
    /\ ImagingSync \/ ImagingAsyncStart \/ ImagingAsyncResume
    /\ UNCHANGED <<rle, strip, pool, wrapper, heap>>
    /\ FacadeUnchanged
SpecImaging == SpecImagingInit /\ [][SpecImagingNext]_vars
SpecPool == SpecPoolInit /\ [][SpecPoolNext]_vars
SpecStrips == SpecStripsInit /\ [][SpecStripsNext]_vars

\* The text wrapper: texts of a few tokens, among them a word longer than
\* a line, wrapped for narrow and wide lines, each width and some indents
SpecWrapInit ==
    /\ WrapInit
    /\ rle = RleIdle /\ strip = StripIdle /\ pool = PoolIdle /\ imaging = ImagingIdle
    /\ heap = HeapIdle
    /\ FacadeIdle
SpecWrapNext ==
    WrapCall /\ UNCHANGED <<rle, strip, pool, imaging, heap>> /\ FacadeUnchanged
SpecWrap == SpecWrapInit /\ [][SpecWrapNext]_vars

\* The shared pool: two callers start image operations, the event loop
\* resumes the suspended ones in any order, and the pool may be cleared
SpecHeapInit ==
    /\ HeapInit
    /\ rle = RleIdle /\ strip = StripIdle /\ pool = PoolIdle /\ imaging = ImagingIdle
    /\ wrapper = WrapIdle
    /\ FacadeIdle
SpecHeapNext ==
    /\ HeapCall \/ HeapResume \/ HeapReleasePool
    /\ UNCHANGED <<rle, strip, pool, imaging, wrapper>>
    /\ FacadeUnchanged
SpecHeap == SpecHeapInit /\ [][SpecHeapNext]_vars

CodecIdle ==
    /\ rle = RleIdle /\ strip = StripIdle /\ pool = PoolIdle /\ imaging = ImagingIdle
    /\ wrapper = WrapIdle /\ heap = HeapIdle

\* Composing lines: an encoder of 32 columns, or an embedded one of 8, is
\* given a few calls and asked for its lines
MaxComposeCalls == 4

SpecComposeInit ==
    /\ CodecIdle
    /\ encoder \in {constructor([NoOptionsGiven EXCEPT !.columns = 32]),
                    constructor([NoOptionsGiven EXCEPT !.columns = 8, !.embedded = TRUE])}
    /\ call = NoCall
    /\ calls = 0
    /\ pending = NoImage
    /\ script = <<>>
    /\ encoded = NoOutput
    /\ stream = NoStream

SpecComposeNext ==
    /\ calls < MaxComposeCalls
    /\ ~encoded.done
    /\ (Text \/ Align \/ Width \/ Bold \/ NewlineCall \/ Raw \/ Table \/ Box \/ Commands)
    /\ CodecUnchanged

SpecCompose == SpecComposeInit /\ [][SpecComposeNext]_vars

\* Documents: calls on an encoder with the default options, image() among
\* them, and encode() called any number of times on the same encoder
MaxDocumentCalls == 4

SpecDocumentInit ==
    /\ CodecIdle
    /\ encoder = constructor(NoOptionsGiven)
    /\ call = NoCall
    /\ calls = 0
    /\ pending = NoImage
    /\ script = <<>>
    /\ encoded = NoOutput
    /\ stream = NoStream

SpecDocumentNext ==
    /\ \/ /\ calls < MaxDocumentCalls
          /\ (Codepage \/ Text \/ Bold \/ Align \/ Cut \/ ImageStart \/ Encode)
       \/ ImageResume
    /\ CodecUnchanged

SpecDocument == SpecDocumentInit /\ [][SpecDocumentNext]_vars

\* The guards of the methods: encoders embedded or not, strict or relaxed,
\* of the default printer or of a printer of the definitions
MaxGuardCalls == 2

GuardOptions ==
    {[NoOptionsGiven EXCEPT !.embedded = embedded,
                            !.columns = IF embedded THEN 12 ELSE 0,
                            !.errors = errors,
                            !.printerModel = printerModel] :
        embedded \in BOOLEAN, errors \in {"strict", "relaxed"},
        printerModel \in {""} \cup PrinterModels}

SpecGuardsInit ==
    /\ CodecIdle
    /\ encoder \in {constructor(given) : given \in GuardOptions}
    /\ call = NoCall
    /\ calls = 0
    /\ pending = NoImage
    /\ script = <<>>
    /\ encoded = NoOutput
    /\ stream = NoStream

SpecGuardsNext ==
    /\ \/ /\ calls < MaxGuardCalls
          /\ (Initialize \/ Font \/ Cut \/ Pulse \/ ImageStart \/ Barcode \/ Qrcode
              \/ Pdf417 \/ Table \/ Box \/ Text)
       \/ ImageResume
    /\ CodecUnchanged

SpecGuards == SpecGuardsInit /\ [][SpecGuardsNext]_vars

\* Images: both dialects and both image modes, images of a width that is
\* a multiple of 8 and of one that is not
MaxImageCalls == 3

ImageOptions ==
    {[NoOptionsGiven EXCEPT !.language = language, !.imageMode = imageMode] :
        language \in {"esc-pos", "star-prnt"}, imageMode \in {"column", "raster"}}

SpecImageInit ==
    /\ CodecIdle
    /\ encoder \in {constructor(given) : given \in ImageOptions}
    /\ call = NoCall
    /\ calls = 0
    /\ pending = NoImage
    /\ script = <<>>
    /\ encoded = NoOutput
    /\ stream = NoStream

SpecImageNext ==
    /\ \/ /\ calls < MaxImageCalls
          /\ (ImageStart \/ Align \/ Text)
       \/ ImageResume
    /\ CodecUnchanged

SpecImage == SpecImageInit /\ [][SpecImageNext]_vars

\* Streaming: a short document, then the iterator run to its end
MaxStreamCalls == 2

SpecStreamInit == SpecDocumentInit

SpecStreamNext ==
    /\ \/ /\ calls < MaxStreamCalls
          /\ (Text \/ NewlineCall \/ Bold \/ Cut \/ Pulse)
       \/ IteratorStart
       \/ IteratorYield
       \/ IteratorNext
       \/ IteratorSettled
    /\ CodecUnchanged

SpecStream == SpecStreamInit /\ [][SpecStreamNext]_vars

\* Newlines: encoders of each newline setting ("none" stands for a value
\* that is neither of the two sequences), a short document, encode()
MaxNewlineCalls == 3

NewlineOptions == {[NoOptionsGiven EXCEPT !.newline = nl] : nl \in {"", "\n", "none"}}

SpecNewlineInit ==
    /\ CodecIdle
    /\ encoder \in {constructor(given) : given \in NewlineOptions}
    /\ call = NoCall
    /\ calls = 0
    /\ pending = NoImage
    /\ script = <<>>
    /\ encoded = NoOutput
    /\ stream = NoStream

SpecNewlineNext ==
    /\ calls < MaxNewlineCalls
    /\ (Text \/ NewlineCall \/ Bold \/ Cut \/ Pulse \/ Encode)
    /\ CodecUnchanged

SpecNewline == SpecNewlineInit /\ [][SpecNewlineNext]_vars

\* Flushing: StarPRNT encoders with auto-flush left out or switched off and
\* an ESC/POS encoder with auto-flush switched on, a short document,
\* commands()
MaxFlushCalls == 3

AutoFlushOptions ==
    {[NoOptionsGiven EXCEPT !.language = "star-prnt", !.autoFlush = autoFlush] :
        autoFlush \in {"unset", "off"}}
      \cup {[NoOptionsGiven EXCEPT !.autoFlush = "on"]}

SpecFlushInit ==
    /\ CodecIdle
    /\ encoder \in {constructor(given) : given \in AutoFlushOptions}
    /\ call = NoCall
    /\ calls = 0
    /\ pending = NoImage
    /\ script = <<>>
    /\ encoded = NoOutput
    /\ stream = NoStream

SpecFlushNext ==
    /\ calls < MaxFlushCalls
    /\ (Text \/ NewlineCall \/ Cut \/ Pulse \/ Commands)
    /\ CodecUnchanged

SpecFlush == SpecFlushInit /\ [][SpecFlushNext]_vars

\* Styles: an encoder of 32 columns, or an embedded one of 4, is given text
\* and changes of each property of the style, and asked for its lines
MaxStyleCalls == 3

SpecStyleInit ==
    /\ CodecIdle
    /\ encoder \in {constructor([NoOptionsGiven EXCEPT !.columns = 32]),
                    constructor([NoOptionsGiven EXCEPT !.columns = 4, !.embedded = TRUE])}
    /\ call = NoCall
    /\ calls = 0
    /\ pending = NoImage
    /\ script = <<>>
    /\ encoded = NoOutput
    /\ stream = NoStream

SpecStyleNext ==
    /\ calls < MaxStyleCalls
    /\ ~encoded.done
    /\ (Text \/ NewlineCall \/ Bold \/ Toggle \/ Width \/ Height \/ Commands)
    /\ CodecUnchanged

SpecStyle == SpecStyleInit /\ [][SpecStyleNext]_vars

\* Pulses: an ESC/POS encoder, pulses of short and long times, commands()
MaxPulseCalls == 3

SpecPulseInit == CodecIdle /\ FacadeIdle

SpecPulseNext ==
    /\ calls < MaxPulseCalls
    /\ (PulseTimed \/ Commands)
    /\ CodecUnchanged

SpecPulse == SpecPulseInit /\ [][SpecPulseNext]_vars

(***************************************************************************)
(* C2: when compressRLE reports compressed, decompressRLE of its data is   *)
(* the input byte for byte; when it reports not compressed, its data is    *)
(* the input.                                                              *)
(***************************************************************************)
RleRoundTrip ==
    rle.pc = "done" =>
        IF rle.result.compressed
        THEN rle.restored = rle.data
        ELSE rle.result.data = rle.data

\* A compressed input holding a run longer than the longest encodable run
RleRoundTripWitness ==
    /\ rle.pc = "done"
    /\ rle.result.compressed
    /\ rle.restored = rle.data
    /\ \E i \in 0..(Len(rle.data) - 1) : CountRun(rle.data, i) > MaxEncodableRun

(***************************************************************************)
(* C10: pixelsToRasterStrips emits ceil(H/S) strips whose heights sum to H;*)
(* every strip but possibly the last has height S; strip s holds the source*)
(* rows s*S .. min((s+1)*S, H) - 1; all strips report widthBytes = W/8.    *)
(***************************************************************************)
StripPartition ==
    strip.pc = "done" =>
        LET W == strip.image.width
            H == strip.image.height
            S == strip.stripHeight
            strips == strip.out.strips
            n == Len(strips)
        IN  /\ ~strip.out.threw
            /\ n = CeilDiv(H, S)
            /\ SumSeq([s \in 1..n |-> strips[s].height]) = H
            /\ \A s \in 1..n :
                 /\ s < n => strips[s].height = S
                 /\ strips[s].height = Min(s * S, H) - (s - 1) * S
                 /\ strips[s].widthBytes * 8 = W
                 /\ Len(strips[s].data) = strips[s].height * (W \div 8)
                 /\ \A y \in 0..(strips[s].height - 1) : \A c \in 0..((W \div 8) - 1) :
                      At(strips[s].data, y * (W \div 8) + c)
                        = RasterByte(strip.image, 8 * c, (s - 1) * S + y, W, H)

\* An image cut into several strips with a shorter last strip and differing rows
StripPartitionWitness ==
    /\ strip.pc = "done"
    /\ Len(strip.out.strips) >= 2
    /\ strip.out.strips[Len(strip.out.strips)].height < strip.stripHeight
    /\ strip.out.strips[1].data # strip.out.strips[2].data

(***************************************************************************)
(* C1: every line the composer produces has as many character cells (text  *)
(* characters times their width multiplier, plus space sizes, the padding  *)
(* of the alignment included) as the composer has columns when the encoder *)
(* is embedded, and at most as many when it is not.                        *)
(***************************************************************************)
RECURSIVE CellsFrom(_, _, _)
CellsFrom(items, k, w) ==
    IF k > Len(items) THEN 0
    ELSE IF items[k].type = "style" /\ items[k].property = "size"
         THEN CellsFrom(items, k + 1, items[k].width)
    ELSE IF items[k].type = "text"
         THEN Len(items[k].text) * w + CellsFrom(items, k + 1, w)
    ELSE IF items[k].type = "space"
         THEN items[k].size + CellsFrom(items, k + 1, w)
    ELSE CellsFrom(items, k + 1, w)

LineCells(items) == CellsFrom(items, 1, 1)

ComposedLines == encoder.composer.queue \o encoded.lines

LinesFillColumns ==
    \A k \in 1..Len(ComposedLines) :
        IF encoder.options.embedded
        THEN LineCells(ComposedLines[k]) = encoder.composer.columns
        ELSE LineCells(ComposedLines[k]) <= encoder.composer.columns

(***************************************************************************)
(* C3: when the iterator of encodeAsyncIterator has run to its end, the    *)
(* chunks it yielded, concatenated in the order of the yields, are the     *)
(* bytes encode gives for the same document; there are                     *)
(* ceil(totalBytes / chunkSize) of them, none longer than chunkSize and    *)
(* only the last one shorter.                                              *)
(***************************************************************************)
ChunksRebuildDocument ==
    (stream.pc = "done" /\ ~stream.threw /\ stream.chunkSize > 0) =>
        /\ Flatten(stream.yielded) = encoded.fresh
        /\ Flatten(stream.yielded) = encoded.bytes
        /\ Len(stream.yielded) = CeilDiv(Len(encoded.fresh), stream.chunkSize)
        /\ \A k \in 1..Len(stream.yielded) :
             /\ Len(stream.yielded[k]) <= stream.chunkSize
             /\ k < Len(stream.yielded) => Len(stream.yielded[k]) = stream.chunkSize

\* A document streamed in several chunks, the last of them a short one
ChunksRebuildDocumentWitness ==
    /\ stream.pc = "done"
    /\ ~stream.threw
    /\ Len(stream.yielded) >= 3
    /\ Len(stream.yielded[Len(stream.yielded)]) < stream.chunkSize
    /\ Len(stream.yielded[1]) = stream.chunkSize

(***************************************************************************)
(* C4: in the output of encode, the bytes of an image() call come before   *)
(* the bytes of every method called after it: the first image of the       *)
(* output is there whenever the document has an image() call, and the      *)
(* letters in front of it are letters of text() calls made before the      *)
(* first image() call.                                                     *)
(***************************************************************************)
OutputItems == Flatten(encoded.lines)

FirstImageAt(items) ==
    IF \A k \in 1..Len(items) : items[k].type # "image" THEN Len(items) + 1
    ELSE CHOOSE k \in 1..Len(items) :
             /\ items[k].type = "image"
             /\ \A j \in 1..(k - 1) : items[j].type # "image"

Letters == {CharCode("a"), CharCode("b")}
LetterCount(bytes) == Cardinality({k \in 1..Len(bytes) : bytes[k] \in Letters})

\* The letters of the text items in front of place n of the output
OutputLetters(items, n) ==
    SumSeq([k \in 1..(n - 1) |->
              IF items[k].type = "text" THEN LetterCount(items[k].payload) ELSE 0])

\* The letters of the text() calls made before call n of the document
ScriptLetters(document, n) ==
    SumSeq([k \in 1..(n - 1) |->
              IF document[k].method = "text"
              THEN LetterCount(EncodeChars(document[k].value))
              ELSE 0])

FirstImageCall(document, n) ==
    /\ document[n].method = "image"
    /\ \A j \in 1..(n - 1) : document[j].method # "image"

ImageBeforeLaterCalls ==
    encoded.done =>
        \A n \in 1..Len(encoded.script) :
            FirstImageCall(encoded.script, n) =>
                /\ FirstImageAt(OutputItems) <= Len(OutputItems)
                /\ OutputLetters(OutputItems, FirstImageAt(OutputItems))
                     <= ScriptLetters(encoded.script, n)

(***************************************************************************)
(* C5: in the output of encode no codepage command is followed, as the     *)
(* next codepage command, by one of the same codepage id.                  *)
(***************************************************************************)
IsCodepageItem(item) == item.type = "codepage"

CodepageCommands == SelectSeq(OutputItems, IsCodepageItem)

NoRepeatedCodepage ==
    encoded.done =>
        \A k \in 1..(Len(CodepageCommands) - 1) :
            CodepageCommands[k].payload # CodepageCommands[k + 1].payload

(***************************************************************************)
(* C6: when encode has returned, the queue is empty, the cursor is 0, the  *)
(* style is all off with size 1x1, the alignment is left, the columns are  *)
(* the configured ones and the codepage state is the sentinel -1, and the  *)
(* bytes returned are the bytes the same calls give on an encoder just     *)
(* constructed.                                                            *)
(***************************************************************************)
EncodeResetsEncoder ==
    (call.method = "encode" /\ call.error = "") =>
        /\ encoder.composer.queue = <<>>
        /\ encoder.composer.cursor = 0
        /\ encoder.composer.style = DefaultStyle
        /\ getAlign(encoder.composer) = "left"
        /\ encoder.composer.columns = encoder.options.columns
        /\ encoder.state.codepage = -1
        /\ encoded.bytes = encoded.fresh

(***************************************************************************)
(* C7: on an embedded encoder a call of a guarded method fails with an     *)
(* error and leaves the composer, its queue included, as it was, and no    *)
(* image() is left suspended.  The code guards initialize, font, cut,      *)
(* pulse, image, barcode, qrcode and pdf417; the claim names table and box *)
(* as well.                                                                *)
(***************************************************************************)
GuardedMethods ==
    {"initialize", "font", "cut", "pulse", "image", "barcode", "qrcode", "pdf417"}

RefusedWhenEmbedded(methods) ==
    (encoder.options.embedded /\ call.method \in methods) =>
        /\ call.error # ""
        /\ encoder.composer = call.before
        /\ ~pending.suspended

EmbeddedRefusesGuarded == RefusedWhenEmbedded(GuardedMethods)

EmbeddedRefusesTableAndBox == RefusedWhenEmbedded(GuardedMethods \cup {"table", "box"})

\* barcode() refused on an embedded encoder with text in its buffer
EmbeddedRefusesGuardedWitness ==
    /\ encoder.options.embedded
    /\ call.method = "barcode"
    /\ call.error = EmbeddedError
    /\ call.before.cursor > 0
    /\ encoder.composer = call.before

(***************************************************************************)
(* C8: a barcode symbology, a QR model or PDF417 that the printer does not *)
(* support (and has no fallback for) makes the call throw when errors is   *)
(* 'strict' and return without an error when it is 'relaxed'; either way   *)
(* the queue, the buffer, the cursor and the alignment are as before the   *)
(* call.  The code does so on an encoder that is not embedded; on an       *)
(* embedded one the call throws whatever errors is.                        *)
(***************************************************************************)
Unsupported ==
    \/ /\ call.method = "barcode"
       /\ \/ ~encoder.caps.barcodes
          \/ ~IsNumber(call.name) /\ call.name \notin encoder.caps.symbologies
    \/ /\ call.method = "qrcode"
       /\ (~encoder.caps.qrcode \/ call.number \notin encoder.caps.models)
    \/ /\ call.method = "pdf417"
       /\ ~encoder.caps.pdf417
       /\ encoder.caps.fallback = ""

RefusedAsConfigured ==
    /\ encoder.options.errors = "strict" => call.error # ""
    /\ encoder.options.errors = "relaxed" => call.error = ""
    /\ encoder.composer.queue = call.before.queue
    /\ encoder.composer.buffer = call.before.buffer
    /\ encoder.composer.cursor = call.before.cursor
    /\ getAlign(encoder.composer) = getAlign(call.before)

UnsupportedRefusedOutsideCells ==
    (Unsupported /\ ~encoder.options.embedded) => RefusedAsConfigured

UnsupportedRefused == Unsupported => RefusedAsConfigured

\* A QR code on a relaxed encoder of a printer without QR codes, text in
\* the buffer: nothing happens
UnsupportedRefusedOutsideCellsWitness ==
    /\ ~encoder.options.embedded
    /\ encoder.options.errors = "relaxed"
    /\ call.method = "qrcode"
    /\ Unsupported
    /\ call.error = ""
    /\ call.before.cursor > 0
    /\ encoder.composer = call.before

(***************************************************************************)
(* C9: image() with a width that is not a multiple of 8 fails with an      *)
(* error, in both image modes and both dialects, and no image command is   *)
(* produced: the call is not left suspended with an encoded image.         *)
(***************************************************************************)
ImageWidthValidated ==
    (call.method = "image" /\ call.number % 8 # 0) =>
        /\ call.error # ""
        /\ ~pending.suspended

(***************************************************************************)
(* C20: compressRLE of 130 bytes of 0xAA followed by 01 02 03 04 05 is the *)
(* ten bytes FF AA 00 AA 04 01 02 03 04 05, and decompressRLE restores the *)
(* 135 bytes of the input.                                                 *)
(***************************************************************************)
RleExampleCompressed ==
    (rle.data = RleExampleInput /\ rle.pc # "input") =>
        /\ rle.result.data = <<255, 170, 0, 170, 4, 1, 2, 3, 4, 5>>
        /\ (rle.pc = "done" => rle.restored = rle.data)

(***************************************************************************)
(* C19: after any sequence of acquire, release and clear on a memory pool, *)
(* acquire(n) has returned a buffer of length at least n, every bucket     *)
(* holds at most 10 buffers (a release into a full bucket is dropped), no  *)
(* buffer longer than 4 MiB is held, and after clear() the pool holds no   *)
(* buffer.                                                                 *)
(***************************************************************************)
PoolContract ==
    /\ pool.last.op = "acquire" => pool.last.buffer >= pool.last.size
    /\ \A b \in DOMAIN pool.pools :
         /\ Len(pool.pools[b]) <= 10
         /\ \A k \in 1..Len(pool.pools[b]) : pool.pools[b][k] <= 4 * 1024 * 1024
    /\ pool.last.op = "clear" => \A b \in DOMAIN pool.pools : pool.pools[b] = <<>>

\* A buffer is released into a bucket of ten buffers and is dropped
PoolContractWitness ==
    /\ pool.last.op = "release"
    /\ pool.last.dropped
    /\ pool.last.buffer = 4
    /\ Len(pool.pools[4]) = 10

(***************************************************************************)
(* C13: with an onChunkSent callback, the callback is called once for each *)
(* chunk, with index 0, 1, ... in that order; the call for a chunk comes   *)
(* after the chunk was yielded, the next chunk is not yielded before the   *)
(* promise of the call has settled, bytesSent is the total length of the   *)
(* chunks yielded so far, and isLast is true in the call for the last      *)
(* chunk only, where bytesSent is totalBytes.  A stream consumed to its    *)
(* end has had as many calls as chunks.                                    *)
(***************************************************************************)
CallbackPerChunk ==
    stream.callback =>
        /\ Len(stream.sent) <= Len(stream.yielded)
        /\ Len(stream.yielded) <= stream.settled + 1
        /\ \A k \in 1..Len(stream.sent) :
             /\ stream.sent[k].index = k - 1
             /\ stream.sent[k].bytes = Len(stream.yielded[k])
             /\ stream.sent[k].bytesSent = Len(Flatten(SubSeq(stream.yielded, 1, k)))
             /\ stream.sent[k].isLast = (k = Len(stream.chunks))
             /\ stream.sent[k].isLast => stream.sent[k].bytesSent = stream.sent[k].totalBytes
             /\ stream.sent[k].totalBytes = Len(stream.fullData)
        /\ (stream.pc = "done" /\ ~stream.threw) =>
             /\ Len(stream.sent) = Len(stream.chunks)
             /\ Len(stream.yielded) = Len(stream.chunks)
             /\ stream.settled = Len(stream.chunks)

\* A stream of three chunks or more consumed to its end with a callback
CallbackPerChunkWitness ==
    /\ stream.callback
    /\ stream.pc = "done"
    /\ Len(stream.sent) >= 3
    /\ stream.sent[Len(stream.sent)].isLast

(***************************************************************************)
(* C14: with an onChunkSent callback, the callback for a chunk has been    *)
(* called and its promise has settled before the chunk is delivered to     *)
(* the consumer.                                                           *)
(***************************************************************************)
CallbackBeforeChunk ==
    stream.callback => Len(stream.yielded) <= stream.settled

(***************************************************************************)
(* C14 as the code has it: the iterator suspends after each chunk it       *)
(* yields.  A chunk is delivered before the callback is called for it, and *)
(* while the promise of a call is pending no chunk is delivered: the chunk *)
(* that follows is delivered when the promise has settled.                 *)
(***************************************************************************)
CallbackAfterChunk ==
    stream.callback =>
        /\ stream.pc = "delivered" => Len(stream.sent) = Len(stream.yielded) - 1
        /\ stream.pc = "awaiting" =>
             /\ Len(stream.sent) = Len(stream.yielded)
             /\ stream.settled = Len(stream.sent) - 1
        /\ stream.pc = "yield" => stream.settled = Len(stream.yielded)
        /\ Len(stream.yielded) <= stream.settled + 1

\* The second chunk is with the consumer, the callback has been called for
\* the first chunk only
CallbackAfterChunkWitness ==
    /\ stream.callback
    /\ stream.pc = "delivered"
    /\ Len(stream.yielded) = 2
    /\ Len(stream.sent) = 1
    /\ stream.settled = 1

(***************************************************************************)
(* C15: encodeAsyncIterator called with a chunkSize of 0 or less fails     *)
(* with an error and yields no chunk, whatever the document is, the empty  *)
(* document included.                                                      *)
(***************************************************************************)
ChunkSizeMustBePositive ==
    (stream.pc # "idle" /\ stream.chunkSize <= 0) =>
        /\ stream.threw
        /\ stream.yielded = <<>>

(***************************************************************************)
(* C16: in the bytes encode returns, the payloads of every line are        *)
(* followed by the newline sequence of the options (0A 0D, 0A or nothing), *)
(* except that no trailing newline is appended when the last item emitted  *)
(* is a pulse: the bytes then end with the payload of the pulse.           *)
(***************************************************************************)
EndsWith(bytes, suffix) ==
    /\ Len(suffix) <= Len(bytes)
    /\ SubSeq(bytes, Len(bytes) - Len(suffix) + 1, Len(bytes)) = suffix

StartOf(bytes, whole) ==
    /\ Len(bytes) <= Len(whole)
    /\ SubSeq(whole, 1, Len(bytes)) = bytes

LastEmitted == Flatten(encoded.lines)[Len(Flatten(encoded.lines))]

LinesTerminated ==
    (call.method = "encode" /\ call.error = "") =>
        IF Flatten(encoded.lines) # <<>> /\ LastEmitted.type = "pulse"
        THEN /\ EndsWith(encoded.bytes, LastEmitted.payload)
             /\ StartOf(encoded.bytes, LineBytes(encoder, encoded.lines))
        ELSE encoded.bytes = LineBytes(encoder, encoded.lines)

(***************************************************************************)
(* C17: on an encoder that is not embedded and has auto-flush on,          *)
(* commands() appends the flush sequence of the dialect after all other    *)
(* commands when the last command of the document is neither a cut nor a   *)
(* pulse, whatever the calls were, and appends no flush sequence when it   *)
(* is a cut or a pulse.  (The flush sequence of ESC/POS is empty.)         *)
(***************************************************************************)
FlushAppended ==
    EndsWith(Flatten(encoded.lines), LanguageFlush(encoder.options.language))

\* The commands of the document: those returned, without the flush sequence
DocumentCommands ==
    IF FlushAppended
    THEN SubSeq(Flatten(encoded.lines), 1,
                Len(Flatten(encoded.lines)) - Len(LanguageFlush(encoder.options.language)))
    ELSE Flatten(encoded.lines)

EndsInCutOrPulse(items) ==
    Len(items) > 0 /\ items[Len(items)].type \in {"cut", "pulse"}

FlushUnlessCutOrPulse ==
    (/\ call.method = "commands"
     /\ call.error = ""
     /\ ~encoder.options.embedded
     /\ encoder.options.autoFlush = "on"
     /\ LanguageFlush(encoder.options.language) # <<>>
     /\ DocumentCommands # <<>>) =>
        (FlushAppended <=> ~EndsInCutOrPulse(DocumentCommands))

(***************************************************************************)
(* C11: every raster command the ESC/POS driver frames for an image of a   *)
(* width W that is a multiple of 8 starts with the 8 bytes                 *)
(* 1D 76 30 m xL xH yL yH, where xL + 256 xH = W / 8 and yL + 256 yH is    *)
(* the number of rows of the strip, and for m = 0 the data after the       *)
(* header have (W / 8) * rows bytes.  For W = 576 and H = 1000 there are   *)
(* two commands, with the headers 1D 76 30 00 48 00 00 02 and              *)
(* 1D 76 30 00 48 00 E8 01.                                                *)
(***************************************************************************)
RasterJob ==
    /\ imaging.job.language = "esc-pos"
    /\ imaging.job.mode = "raster"
    /\ imaging.job.width % 8 = 0

\* The rows of the k-th strip of the image
StripRows(k) ==
    Min(IMAGE_STRIP_HEIGHT, imaging.job.height - (k - 1) * IMAGE_STRIP_HEIGHT)

Framed(item, k) ==
    /\ item.type = "image"
    /\ Len(item.payload) >= 8
    /\ \A j \in 1..Len(item.payload) : item.payload[j] \in 0..255
    /\ SubSeq(item.payload, 1, 3) = <<29, 118, 48>>
    /\ item.payload[4] \in {0, 1}
    /\ item.payload[5] + 256 * item.payload[6] = imaging.job.width \div 8
    /\ item.payload[7] + 256 * item.payload[8] = StripRows(k)
    /\ item.payload[4] = 0 =>
         Len(item.payload) - 8 = (imaging.job.width \div 8) * StripRows(k)

AllFramed(items) == \A k \in 1..Len(items) : Framed(items[k], k)

ExampleHeaders(items) ==
    /\ Len(items) = 2
    /\ SubSeq(items[1].payload, 1, 8) = <<29, 118, 48, 0, 72, 0, 0, 2>>
    /\ SubSeq(items[2].payload, 1, 8) = <<29, 118, 48, 0, 72, 0, 232, 1>>

IsStripExample == imaging.job.width = 576 /\ imaging.job.height = 1000

Advertised ==
    /\ imaging.job.printerModel \in PrinterModels
    /\ printerDefinitions(imaging.job.printerModel).supportsCompression

ModeAgrees(item, raster) ==
    /\ item.payload[4] = 1 =>
         /\ Advertised
         /\ Len(item.payload) - 8 < Len(raster)
         /\ decompressRLE(SubSeq(item.payload, 9, Len(item.payload))) = raster
    /\ item.payload[4] # 1 =>
         /\ item.payload[4] = 0
         /\ SubSeq(item.payload, 9, Len(item.payload)) = raster
         /\ ~(Advertised /\ Len(CompressFrom(raster, 0)) < Len(raster))

AllModesAgree(items, rasterStrips) ==
    \A k \in 1..Len(items) : ModeAgrees(items[k], rasterStrips[k].data)

CompressionAsAdvertised ==
    (RasterJob /\ imaging.sync.done /\ ~imaging.sync.threw) =>
        AllModesAgree(imaging.sync.items,
                      pixelsToRasterStrips(imaging.job.image, imaging.job.width,
                                           imaging.job.height, IMAGE_STRIP_HEIGHT).strips)

\* A strip that is sent compressed, and one that compression does not
\* shorten on the same printer
CompressionAsAdvertisedWitness ==
    /\ RasterJob
    /\ imaging.sync.done
    /\ Advertised
    /\ Len(imaging.sync.items) >= 1
    /\ imaging.sync.items[1].payload[4] = 1
    /\ imaging.job.width = 16

(***************************************************************************)
(* C18: for every image, width, height, image mode and compression flag    *)
(* and for both drivers, the commands of the asynchronous path are those   *)
(* of the synchronous path for the same arguments.                         *)
(***************************************************************************)
\* What the caller of a path gets: an error, or the commands
PathOutcome(failed, items) ==
    [threw |-> failed, items |-> IF failed THEN <<>> ELSE items]

AsyncMatchesSync ==
    (imaging.sync.done /\ imaging.async.pc = "done") =>
        PathOutcome(imaging.async.threw, imaging.async.items)
            = PathOutcome(imaging.sync.threw, imaging.sync.items)

\* The two paths agree on every image that passes validateImage
AsyncMatchesSyncOnValidImages ==
    (imaging.sync.done /\ imaging.async.pc = "done"
        /\ ValidImage(imaging.job.image)) =>
        PathOutcome(imaging.async.threw, imaging.async.items)
            = PathOutcome(imaging.sync.threw, imaging.sync.items)

(***************************************************************************)
(* C21: in raster mode an image is split into strips of 256 rows, one      *)
(* GS v 0 command for each strip: an image 576 pixels wide of 500 rows     *)
(* gives two commands, the first of height 256 with 18432 bytes of data,   *)
(* the second of height 244 with 17568 bytes of data.                      *)
(***************************************************************************)
DocumentedStripHeight == 256

DocumentedStrip(item, k) ==
    /\ Len(item.payload) >= 8
    /\ item.payload[7] + 256 * item.payload[8]
         = Min(DocumentedStripHeight,
               imaging.job.height - (k - 1) * DocumentedStripHeight)
    /\ item.height = item.payload[7] + 256 * item.payload[8]

StripsOf256Rows ==
    (RasterJob /\ imaging.sync.done /\ ~imaging.sync.threw) =>
        /\ Len(imaging.sync.items) = CeilDiv(imaging.job.height, DocumentedStripHeight)
        /\ \A k \in 1..Len(imaging.sync.items) :
             DocumentedStrip(imaging.sync.items[k], k)
        /\ (imaging.job.width = 576 /\ imaging.job.height = 500) =>
             /\ Len(imaging.sync.items) = 2
             /\ imaging.sync.items[1].height = 256
             /\ Len(imaging.sync.items[1].payload) - 8 = 18432
             /\ imaging.sync.items[2].height = 244
             /\ Len(imaging.sync.items[2].payload) - 8 = 17568

(***************************************************************************)
(* C22: the ESC/POS command of pulse(device, on, off) is 1B 70 d t1 t2     *)
(* where t1 and t2, as they are written to the wire, are on / 2 and        *)
(* off / 2 rounded and capped at 500; the t1 written does not decrease     *)
(* when on increases.                                                      *)
(***************************************************************************)
IsPulseCall(c) == c.method = "pulse"
IsPulseItem(item) == item.type = "pulse"
PulseCalls == SelectSeq(encoded.script, IsPulseCall)
PulseItems == SelectSeq(Flatten(encoded.lines), IsPulseItem)

\* Math.round(ms / 2) of a non-negative integer, capped at 500
HalfCapped(ms) == Min(500, IF ms % 2 = 0 THEN ms \div 2 ELSE (ms + 1) \div 2)

PulseAsCalled(c, item) ==
    item.payload = <<27, 112, IF c.value[1] # 0 THEN 1 ELSE 0,
                     HalfCapped(c.value[2]), HalfCapped(c.value[3])>>

PulseTimesOnWire ==
    (call.method = "commands" /\ call.error = "") =>
        /\ Len(PulseItems) = Len(PulseCalls)
        /\ \A k \in 1..Len(PulseItems) : PulseAsCalled(PulseCalls[k], PulseItems[k])
        /\ \A j, k \in 1..Len(PulseItems) :
             PulseCalls[j].value[2] <= PulseCalls[k].value[2]
                 => PulseItems[j].payload[4] <= PulseItems[k].payload[4]

(***************************************************************************)
(* C23: for every style the setters reach, the items of store() take the   *)
(* style to the default and the items of restore() take the default to the *)
(* style; every line of the composer leaves the style of the printer at    *)
(* the default, and the items kept for the start of the next line are      *)
(* those of restore() for the style in force at the previous flush, from   *)
(* which the style changes buffered since lead to the current style.       *)
(***************************************************************************)
\* The style of the printer after one item
StyleAfterItem(s, item) ==
    IF item.type # "style" THEN s
    ELSE IF item.property = "size"
    THEN [s EXCEPT !.width = item.width, !.height = item.height]
    ELSE [s EXCEPT ![item.property] = item.on]

RECURSIVE StyleAfterFrom(_, _, _)
StyleAfterFrom(s, items, k) ==
    IF k > Len(items) THEN s
    ELSE StyleAfterFrom(StyleAfterItem(s, items[k]), items, k + 1)

StyleAfter(s, items) == StyleAfterFrom(s, items, 1)

StyleBrackets ==
    /\ StyleAfter(encoder.composer.style, store(encoder.composer.style)) = DefaultStyle
    /\ StyleAfter(DefaultStyle, restore(encoder.composer.style)) = encoder.composer.style
    /\ \A k \in 1..Len(ComposedLines) :
         StyleAfter(DefaultStyle, ComposedLines[k]) = DefaultStyle
    /\ ~encoder.composer.threw =>
         /\ encoder.composer.stored
              = restore(StyleAfter(DefaultStyle, encoder.composer.stored))
         /\ StyleAfter(StyleAfter(DefaultStyle, encoder.composer.stored),
                       encoder.composer.buffer) = encoder.composer.style

\* A line has been emitted in a style that is not the default, and the
\* style has changed since
StyleBracketsWitness ==
    /\ Len(encoder.composer.queue) >= 1
    /\ encoder.composer.stored # <<>>
    /\ encoder.composer.style.bold
    /\ encoder.composer.style.width = 2
    /\ \E k \in 1..Len(encoder.composer.buffer) : encoder.composer.buffer[k].type = "style"

(***************************************************************************)
(* C24: in every reachable state of the line composer the cursor is at     *)
(* least 0 and at most the number of columns, whatever operations of the   *)
(* encoder have been called.                                               *)
(***************************************************************************)
CursorWithinColumns ==
    /\ 0 <= encoder.composer.cursor
    /\ encoder.composer.cursor <= encoder.composer.columns

(***************************************************************************)
(* C25: for every text, columns, width and indent of at most the columns,  *)
(* every line TextWrap.wrap returns has length * width <= columns, and     *)
(* the first line has length * width + indent <= columns.                  *)
(***************************************************************************)
WrappedLinesFit ==
    wrapper.pc = "done" =>
        /\ \A k \in 1..Len(wrapper.lines) :
             Len(wrapper.lines[k]) * wrapper.width <= wrapper.columns
        /\ Len(wrapper.lines) >= 1 =>
             Len(wrapper.lines[1]) * wrapper.width + wrapper.indent <= wrapper.columns

\* A word longer than a line has been cut after an indent
WrappedLinesFitWitness ==
    /\ wrapper.pc = "done"
    /\ wrapper.value = <<"a", "b", " ">> \o LongWord
    /\ wrapper.columns = 12
    /\ wrapper.width = 1
    /\ wrapper.indent = 1
    /\ Len(wrapper.lines) = 3

(***************************************************************************)
(* C26: when TextWrap.wrap cuts a token that is longer than a line, a      *)
(* prefix of the token goes on the current line if and only if at least    *)
(* 8 * width cells remain on it (columns less the cells already used);     *)
(* otherwise the token starts on a new line.                               *)
(***************************************************************************)
\* The text is one token longer than a line, and cells of the line are used
LongTokenAfterIndent ==
    /\ \A k \in 1..Len(wrapper.value) : wrapper.value[k] \in WordChars
    /\ Len(wrapper.value) * wrapper.width > wrapper.columns
    /\ wrapper.indent > 0

BreakWhenEightCellsRemain ==
    (wrapper.pc = "done" /\ LongTokenAfterIndent) =>
        ((Len(wrapper.lines) >= 1 /\ Len(wrapper.lines[1]) > 0)
            <=> wrapper.columns - wrapper.indent >= 8 * wrapper.width)

(***************************************************************************)
(* C30: for every text and every columns >= width >= 1, TextWrap.wrap      *)
(* neither drops, duplicates nor reorders a character that is not          *)
(* whitespace: the lines it returns, concatenated in order and with all    *)
(* whitespace removed, are the text with all whitespace removed.           *)
(***************************************************************************)
NotWhitespace(ch) == ch \notin (WhitespaceChars \cup {Newline})
WithoutWhitespace(s) == SelectSeq(s, NotWhitespace)

StripsJoinToRaster ==
    strip.pc = "whole" =>
        /\ strip.out.threw = strip.whole.threw
        /\ ~strip.out.threw =>
              Flatten([s \in 1..Len(strip.out.strips) |-> strip.out.strips[s].data])
                = strip.whole.data

\* An image cut into three strips, the last one shorter, whose rows are not
\* all alike, so that a row out of place would show
StripsJoinToRasterWitness ==
    /\ strip.pc = "whole"
    /\ ~strip.out.threw
    /\ Len(strip.out.strips) >= 2
    /\ strip.out.strips[Len(strip.out.strips)].height < strip.stripHeight
    /\ strip.out.strips[1].data # strip.out.strips[2].data
    /\ Len(strip.whole.data) = strip.image.height * (strip.image.width \div 8)

\* C27: when an image operation has completed, each buffer it acquired
\* from the pool has been released: it holds none
AcquiredBuffersReleased ==
    \A t \in Callers :
        heap.tasks[t].pc = "done" => heap.tasks[t].held = <<>>

\* Where a buffer can be: in a bucket of the pool, with a running or
\* completed operation, or with a caller whose earlier operation kept it
BufferPlaces ==
    {<<"pool", l>> : l \in DOMAIN heap.pools}
    \cup {<<"task", t>> : t \in Callers}
    \cup {<<"kept", 0>>}

BuffersAt(place) ==
    IF place[1] = "pool" THEN heap.pools[place[2]]
    ELSE IF place[1] = "task" THEN heap.tasks[place[2]].held
    ELSE heap.kept

IdsAt(place) == {BuffersAt(place)[k].id : k \in 1..Len(BuffersAt(place))}

\* C29: whatever the interleaving of the operations sharing the pool, no
\* buffer is in two places at once: a buffer an operation was given and has
\* not released is in no bucket and with no other operation, it was not
\* given twice, and no buffer is in the pool twice
AcquiredBuffersApart ==
    /\ \A p \in BufferPlaces : Cardinality(IdsAt(p)) = Len(BuffersAt(p))
    /\ \A p, q \in BufferPlaces : p # q => IdsAt(p) \cap IdsAt(q) = {}

\* Two operations are suspended at an await, each holding a buffer of the
\* same length; one of them was given a buffer that an earlier operation
\* had released, the other found the bucket empty, and a third buffer lies
\* in the pool
AcquiredBuffersApartWitness ==
    /\ heap.started = 3
    /\ heap.made = 3
    /\ heap.pools # <<>>
    /\ \A t \in Callers :
          /\ heap.tasks[t].pc = "yielded"
          /\ Len(heap.tasks[t].held) = 1
          /\ heap.tasks[t].held[1].length = 128

====
